---- MODULE Spec2Model ----
(***************************************************************************)
(* dolores: the static resolver and the tree-walking evaluator of a Lox    *)
(* dialect.  The resolver is a recursive walk, modelled as recursive       *)
(* operators over a resolver record; the evaluator is modelled as an       *)
(* abstract machine whose continuation stack holds one frame per suspended *)
(* Rust call of Interpreter::exec / Interpreter::eval / Closure::apply.    *)
(***************************************************************************)
EXTENDS Integers, Sequences, FiniteSets, TLC

(***************************************************************************)
(* Bounds of the model.                                                    *)
(***************************************************************************)
\* deepest nesting of constructs around a jump statement in the generated inputs
MaxNest == 2
\* largest number of successive calls of the counter closure
MaxCalls == 2
\* number of environments the heap may hold
MaxEnvs == 14

(***************************************************************************)
(* Tokens and the AST (parser/expr.rs, parser/stmt.rs).  A token is keyed  *)
(* by its lexeme and its position.                                         *)
(***************************************************************************)
Token(lexeme, pos) == [lexeme |-> lexeme, pos |-> pos]

None == [k |-> "None"]

LitNil == [k |-> "Literal", lit |-> [k |-> "Nil"]]
LitBool(b) == [k |-> "Literal", lit |-> [k |-> "Bool", b |-> b]]
LitNum(n) == [k |-> "Literal", lit |-> [k |-> "Number", n |-> n]]
\* a string is the sequence of its pieces
LitStr(s) == [k |-> "Literal", lit |-> [k |-> "Str", s |-> s]]
Variable(lexeme, pos) == [k |-> "Variable", name |-> Token(lexeme, pos)]
Assign(lexeme, pos, val) == [k |-> "Assign", name |-> Token(lexeme, pos), val |-> val]
Binary(lhs, op, rhs) == [k |-> "Binary", lhs |-> lhs, op |-> op, rhs |-> rhs]
Logical(lhs, op, rhs) == [k |-> "Logical", lhs |-> lhs, op |-> op, rhs |-> rhs]
Unary(op, rhs) == [k |-> "Unary", op |-> op, rhs |-> rhs]
Grouping(inner) == [k |-> "Grouping", inner |-> inner]
Call(callee, args) == [k |-> "Call", callee |-> callee, args |-> args]
Lambda(params, body) == [k |-> "Lambda", params |-> params, body |-> body]
Get(obj, lexeme) == [k |-> "Get", obj |-> obj, name |-> lexeme]
Set(obj, lexeme, to) == [k |-> "Set", obj |-> obj, name |-> lexeme, to |-> to]
Super(pos, method) == [k |-> "Super", kw |-> Token("super", pos), method |-> method]
This(pos) == [k |-> "This", kw |-> Token("this", pos)]

Block(stmts) == [k |-> "Block", stmts |-> stmts]
Class(lexeme, superclass, methods) ==
    [k |-> "Class", name |-> Token(lexeme, 0), superclass |-> superclass, methods |-> methods]
Expression(expr) == [k |-> "Expression", expr |-> expr]
Fun(lexeme, params, body) ==
    [k |-> "Fun", name |-> Token(lexeme, 0), params |-> params, body |-> body]
If(cond, then_stmt, else_stmt) ==
    [k |-> "If", cond |-> cond, then_stmt |-> then_stmt, else_stmt |-> else_stmt]
Jump(lexeme) == [k |-> "Jump", kw |-> lexeme]
\* Stmt::Print
OutStmt(expr) == [k |-> "Print", expr |-> expr]
Return(val) == [k |-> "Return", val |-> val]
Var(lexeme, init) == [k |-> "Var", name |-> Token(lexeme, 0), init |-> init]
While(cond, body) == [k |-> "While", cond |-> cond, body |-> body]

\* Parser::for_stmt: for (init; cond; incr) body as { init; while (cond) { body; incr; } }
for_stmt(init, cond, incr, body) ==
    LET block == Block(IF incr # None THEN <<body, Expression(incr)>> ELSE <<body>>)
        while_loop == While(IF cond = None THEN LitBool(TRUE) ELSE cond, block)
    IN Block(IF init # None THEN <<init, while_loop>> ELSE <<while_loop>>)

\* a parameter list from its lexemes
Params(lexemes) == [i \in 1..Len(lexemes) |-> Token(lexemes[i], 0)]

\* Option::unwrap_or_default on an optional expression (Expr::default is Literal(Nil))
unwrap_or_default(e) == IF e = None THEN LitNil ELSE e

(***************************************************************************)
(* The resolver (resolver.rs, resolver/stmt.rs, resolver/expr.rs).  The    *)
(* record r holds the fields of Resolver plus the Result of the walk: err  *)
(* is "" while the walk is Ok and the message of the first error after.    *)
(***************************************************************************)
NoErr == ""

JumpContext(fun_ty, in_loop) == [fun_ty |-> fun_ty, in_loop |-> in_loop]

ResolverNew(locals) ==
    [scopes |-> <<>>, jump_ctx |-> JumpContext("None", FALSE), class_ctx |-> "None",
     locals |-> locals, err |-> NoErr]

begin_scope(r) == [r EXCEPT !.scopes = Append(@, <<>>)]

end_scope(r) == [r EXCEPT !.scopes = IF Len(@) = 0 THEN @ ELSE SubSeq(@, 1, Len(@) - 1)]

set_state(r, lexeme, state) ==
    IF Len(r.scopes) = 0 THEN r
    ELSE [r EXCEPT !.scopes[Len(r.scopes)] = (lexeme :> state) @@ @]

declare(r, token) == set_state(r, token.lexeme, "Declared")

define(r, token) == set_state(r, token.lexeme, "Defined")

resolve_local(r, name) ==
    LET n == Len(r.scopes)
        hits == {d \in 0..(n - 1) : name.lexeme \in DOMAIN r.scopes[n - d]}
    IN IF hits = {} THEN r
       ELSE [r EXCEPT !.locals = (name :> (CHOOSE d \in hits : \A e \in hits : d <= e)) @@ @]

bail(r, msg) == [r EXCEPT !.err = msg]

RECURSIVE resolve_stmt(_, _)
RECURSIVE resolve_stmts(_, _)
RECURSIVE resolve_expr(_, _)
RECURSIVE resolve_exprs(_, _)
RECURSIVE resolve_methods(_, _)
RECURSIVE define_params(_, _)

define_params(r, params) ==
    IF Len(params) = 0 THEN r
    ELSE define_params(define(declare(r, Head(params)), Head(params)), Tail(params))

resolve_lambda(r, ctx, params, body) ==
    LET old_ctx == r.jump_ctx
        r1 == define_params(begin_scope([r EXCEPT !.jump_ctx = ctx]), params)
        r2 == resolve_stmts(r1, body)
    IN IF r2.err # NoErr THEN r2
       ELSE [end_scope(r2) EXCEPT !.jump_ctx = old_ctx]

resolve_stmts(r, stmts) ==
    IF r.err # NoErr \/ Len(stmts) = 0 THEN r
    ELSE resolve_stmts(resolve_stmt(r, Head(stmts)), Tail(stmts))

resolve_exprs(r, exprs) ==
    IF r.err # NoErr \/ Len(exprs) = 0 THEN r
    ELSE resolve_exprs(resolve_expr(r, Head(exprs)), Tail(exprs))

method_ctx(name) ==
    JumpContext(IF name.lexeme = "init" THEN "Initializer" ELSE "Method", FALSE)

resolve_methods(r, methods) ==
    IF r.err # NoErr \/ Len(methods) = 0 THEN r
    ELSE LET it == Head(methods)
         IN resolve_methods(resolve_lambda(r, method_ctx(it.name), it.params, it.body),
                            Tail(methods))

resolve_class(r, stmt) ==
    LET old_ctx == r.class_ctx
        r1 == define(declare([r EXCEPT !.class_ctx = "Class"], stmt.name), stmt.name)
        r2 == set_state(begin_scope(r1), "this", "Defined")
        r3 == resolve_methods(r2, stmt.methods)
    IN IF r3.err # NoErr THEN r3
       ELSE [end_scope(r3) EXCEPT !.class_ctx = old_ctx]

\* resolve_jump without the loop-context check
resolve_jump_unchecked(r, stmt) == r

resolve_jump(r, stmt) ==
    IF ~r.jump_ctx.in_loop
    THEN bail(r, IF stmt.kw = "break" THEN "found break out of loop context"
                 ELSE "found continue out of loop context")
    ELSE r

\* resolve_return without the initializer check
resolve_return_any_value(r, stmt) ==
    IF r.jump_ctx.fun_ty = "None"
    THEN bail(r, "found return out of function context")
    ELSE IF stmt.val # None THEN resolve_expr(r, stmt.val) ELSE r

resolve_return(r, stmt) ==
    IF r.jump_ctx.fun_ty = "None"
    THEN bail(r, "found return out of function context")
    ELSE IF r.jump_ctx.fun_ty = "Initializer" /\ stmt.val # None
    THEN bail(r, "found returned value in initializer context")
    ELSE IF stmt.val # None THEN resolve_expr(r, stmt.val) ELSE r

resolve_var(r, stmt) ==
    LET r1 == declare(r, stmt.name)
        r2 == IF stmt.init # None THEN resolve_expr(r1, stmt.init) ELSE r1
    IN IF r2.err # NoErr THEN r2 ELSE define(r2, stmt.name)

\* resolve_while leaving the resolver inside the loop context
resolve_while_stay_in_loop(r, stmt) ==
    LET r1 == resolve_expr([r EXCEPT !.jump_ctx.in_loop = TRUE], stmt.cond)
    IN IF r1.err # NoErr THEN r1 ELSE resolve_stmt(r1, stmt.body)

resolve_while(r, stmt) ==
    LET old_in_loop == r.jump_ctx.in_loop
        r1 == resolve_expr([r EXCEPT !.jump_ctx.in_loop = TRUE], stmt.cond)
        r2 == IF r1.err # NoErr THEN r1 ELSE resolve_stmt(r1, stmt.body)
    IN IF r2.err # NoErr THEN r2 ELSE [r2 EXCEPT !.jump_ctx.in_loop = old_in_loop]

resolve_if(r, stmt) ==
    LET r1 == resolve_expr(r, stmt.cond)
        r2 == IF r1.err # NoErr THEN r1 ELSE resolve_stmt(r1, stmt.then_stmt)
    IN IF r2.err # NoErr \/ stmt.else_stmt = None THEN r2
       ELSE resolve_stmt(r2, stmt.else_stmt)

resolve_block(r, stmt) ==
    LET r1 == resolve_stmts(begin_scope(r), stmt.stmts)
    IN IF r1.err # NoErr THEN r1 ELSE end_scope(r1)

\* resolve_fun with a body that inherits the loop context of the declaration
resolve_fun_inherit_loop(r, stmt) ==
    resolve_lambda(define(declare(r, stmt.name), stmt.name),
                   JumpContext("Function", r.jump_ctx.in_loop), stmt.params, stmt.body)

resolve_fun(r, stmt) ==
    resolve_lambda(define(declare(r, stmt.name), stmt.name),
                   JumpContext("Function", FALSE), stmt.params, stmt.body)

resolve_stmt(r, stmt) ==
    IF r.err # NoErr THEN r
    ELSE CASE stmt.k = "Block" -> resolve_block(r, stmt)
           [] stmt.k = "Class" -> resolve_class(r, stmt)
           [] stmt.k = "Expression" -> resolve_expr(r, stmt.expr)
           [] stmt.k = "Fun" -> resolve_fun(r, stmt)
           [] stmt.k = "If" -> resolve_if(r, stmt)
           [] stmt.k = "Jump" -> resolve_jump(r, stmt)
           [] stmt.k = "Print" -> resolve_expr(r, stmt.expr)
           [] stmt.k = "Return" -> resolve_return(r, stmt)
           [] stmt.k = "Var" -> resolve_var(r, stmt)
           [] stmt.k = "While" -> resolve_while(r, stmt)

\* resolve_variable without the own-initializer check
resolve_variable_unchecked(r, tk) == resolve_local(r, tk)

resolve_variable(r, tk) ==
    IF Len(r.scopes) > 0
       /\ tk.lexeme \in DOMAIN r.scopes[Len(r.scopes)]
       /\ r.scopes[Len(r.scopes)][tk.lexeme] = "Declared"
    THEN bail(r, "cannot read local Variable in its own initializer")
    ELSE resolve_local(r, tk)

\* The arms of resolve_expr that resolver/expr.rs leaves as todo!() or calls with
\* the superseded two-argument resolve_lambda.
resolve_expr_class(r, expr) ==
    CASE expr.k = "Lambda" ->
            resolve_lambda(r, JumpContext("Function", FALSE), expr.params, expr.body)
      [] expr.k = "Get" -> resolve_expr(r, expr.obj)
      [] expr.k = "Set" -> resolve_expr(resolve_expr(r, expr.to), expr.obj)
      [] expr.k = "Super" -> resolve_local(r, expr.kw)
      [] expr.k = "This" ->
            IF r.class_ctx = "None" THEN bail(r, "found this out of class context")
            ELSE resolve_local(r, expr.kw)

resolve_expr(r, expr) ==
    IF r.err # NoErr THEN r
    ELSE CASE expr.k = "Assign" ->
                LET r1 == resolve_expr(r, expr.val)
                IN IF r1.err # NoErr THEN r1 ELSE resolve_local(r1, expr.name)
           [] expr.k \in {"Binary", "Logical"} ->
                resolve_expr(resolve_expr(r, expr.lhs), expr.rhs)
           [] expr.k = "Call" -> resolve_exprs(resolve_expr(r, expr.callee), expr.args)
           [] expr.k = "Grouping" -> resolve_expr(r, expr.inner)
           [] expr.k = "Literal" -> r
           [] expr.k = "Unary" -> resolve_expr(r, expr.rhs)
           [] expr.k = "Variable" -> resolve_variable(r, expr.name)
           [] OTHER -> resolve_expr_class(r, expr)

\* a walk that stops after the first statement of the input
resolve_first_only(locals, stmts) ==
    resolve_stmts(ResolverNew(locals), SubSeq(stmts, 1, 1))

\* Resolver::resolve: the walk over the statements of one input
resolve(locals, stmts) == resolve_stmts(ResolverNew(locals), stmts)

(***************************************************************************)
(* Values (interpreter/object.rs).  A literal is its own value.  Strings   *)
(* are sequences of pieces so that concatenation is \o.                     *)
(***************************************************************************)
Nil == [k |-> "Nil"]
Bool(b) == [k |-> "Bool", b |-> b]
Number(n) == [k |-> "Number", n |-> n]
Str(s) == [k |-> "Str", s |-> s]

\* impl From<&Object> for bool
\* a truthiness that takes the number 0 and the empty string for false as well
to_bool_zero_falsy(obj) ==
    ~(\/ obj.k = "Nil"
      \/ (obj.k = "Bool" /\ obj.b = FALSE)
      \/ (obj.k = "Number" /\ obj.n = 0)
      \/ (obj.k = "Str" /\ obj.s = <<>>))

to_bool(obj) == ~(obj.k = "Nil" \/ (obj.k = "Bool" /\ obj.b = FALSE))

\* impl TryFrom<&Object> for f64, on the operands the callers let through
to_f64(obj) == IF obj.k = "Number" THEN obj.n ELSE IF obj.b THEN 1 ELSE 0

IsNumeric(obj) == obj.k \in {"Bool", "Number"}

\* impl Display for Object, for the operands of a string concatenation
Display(obj) ==
    CASE obj.k = "Nil" -> <<"nil">>
      [] obj.k = "Bool" -> IF obj.b THEN <<"true">> ELSE <<"false">>
      [] obj.k = "Number" -> <<ToString(obj.n)>>
      [] obj.k = "Str" -> <<"\"">> \o obj.s \o <<"\"">>
      [] obj.k = "NativeFn" -> <<"<fun: ", obj.name, "@native>">>
      [] obj.k = "Class" -> <<"<class: ", obj.name, ">">>
      [] obj.k = "Instance" -> <<"<instance>">>

(***************************************************************************)
(* Errors: the anyhow::Error values that travel through Result.  The jump  *)
(* markers of interpreter/jump.rs travel the same way.                     *)
(***************************************************************************)
BreakMarker == [k |-> "Break", msg |-> "found break out of loop context"]
ContinueMarker == [k |-> "Continue", msg |-> "found continue out of loop context"]
ReturnMarker(obj) == [k |-> "Return", msg |-> "found return out of function context", v |-> obj]
RuntimeError(msg) == [k |-> "Runtime", msg |-> msg]
InternalError(msg) == [k |-> "Internal", msg |-> msg]
ArityError(expected_len, got_len) ==
    [k |-> "Runtime", msg |-> "unexpected number of parameters",
     expected |-> expected_len, got |-> got_len]
SemanticError(msg) == [k |-> "Semantic", msg |-> msg]

IsMarker(e) == e.k \in {"Break", "Continue", "Return"}

(***************************************************************************)
(* Environments (interpreter/env.rs).  The heap envs holds one record per  *)
(* Env ever created; an environment reference is its index, 0 is no        *)
(* environment.                                                            *)
(***************************************************************************)
from_outer(outer) == [dict |-> <<>>, outer |-> outer]

insert_val(heap, this, ident, defn) == [heap EXCEPT ![this].dict = (ident :> defn) @@ @]

lookup_dict(heap, this, ident) ==
    IF ident \in DOMAIN heap[this].dict THEN heap[this].dict[ident] ELSE None

\* iter::successors(first, |outer| outer.outer).nth(n)
RECURSIVE successors_nth(_, _, _)
successors_nth(heap, first, n) ==
    IF first = 0 THEN 0
    ELSE IF n = 0 THEN first
    ELSE successors_nth(heap, heap[first].outer, n - 1)

\* Env::outer_nth(&self, n) of interpreter/env.rs: the successors start at self.outer
Env_outer_nth(heap, this, n) == successors_nth(heap, heap[this].outer, n)

\* Env::outer_nth(&env, n) as Interpreter::lookup and assign_at call it
RECURSIVE outer_nth(_, _, _)
outer_nth(heap, this, n) ==
    IF this = 0 THEN 0
    ELSE IF n = 0 THEN this
    ELSE outer_nth(heap, heap[this].outer, n - 1)

(***************************************************************************)
(* Closures, classes and instances (interpreter/closure.rs, class.rs).     *)
(***************************************************************************)
ClosureNew(name, params, body, e) ==
    [k |-> "NativeFn", name |-> name, params |-> params, body |-> body, env |-> e,
     is_init |-> FALSE]

ClosureNewInit(name, params, body, e) ==
    [ClosureNew(name, params, body, e) EXCEPT !.is_init = TRUE]

\* Closure::bind: the environment the bound closure captures
bind_env(clos, instance) == [from_outer(clos.env) EXCEPT !.dict = ("this" :> instance) @@ @]

ClassNew(uid, name, superclass, methods) ==
    [k |-> "Class", uid |-> uid, name |-> name, superclass |-> superclass,
     methods |-> methods]

RECURSIVE method(_, _)
\* a lookup in the method table of the class alone
method_own_table(class, name) ==
    IF name \in DOMAIN class.methods THEN class.methods[name] ELSE None

\* Class::method
method(class, name) ==
    IF name \in DOMAIN class.methods THEN class.methods[name]
    ELSE IF class.superclass = None THEN None
    ELSE method(class.superclass, name)

Instance(uid) == [k |-> "Instance", uid |-> uid]

\* the method table of a class declaration: each Stmt::Fun becomes a closure over e
RECURSIVE class_methods(_, _)
class_methods(methods, e) ==
    IF Len(methods) = 0 THEN <<>>
    ELSE LET it == methods[Len(methods)]
             closure == IF it.name.lexeme = "init"
                        THEN ClosureNewInit(it.name.lexeme, it.params, it.body, e)
                        ELSE ClosureNew(it.name.lexeme, it.params, it.body, e)
         IN (it.name.lexeme :> closure) @@ class_methods(SubSeq(methods, 1, Len(methods) - 1), e)

(***************************************************************************)
(* Binary operators (interpreter/expr.rs).  Numbers are integers here;     *)
(* division is left out.                                                   *)
(***************************************************************************)
\* impl PartialEq for Object / Closure / Class / Instance
ObjEq(lhs, rhs) ==
    /\ lhs.k = rhs.k
    /\ CASE lhs.k = "Nil" -> TRUE
         [] lhs.k = "Bool" -> lhs.b = rhs.b
         [] lhs.k = "Number" -> lhs.n = rhs.n
         [] lhs.k = "Str" -> lhs.s = rhs.s
         [] lhs.k = "NativeFn" -> FALSE
         [] lhs.k = "Class" -> lhs.uid = rhs.uid
         [] lhs.k = "Instance" -> lhs.uid = rhs.uid

BinaryOp(op, lhs, rhs) ==
    CASE op = "Plus" /\ lhs.k = "Str" /\ rhs.k = "Str" -> Str(lhs.s \o rhs.s)
      [] op = "Plus" /\ lhs.k = "Str" /\ rhs.k # "Str" -> Str(lhs.s \o Display(rhs))
      [] op = "Plus" /\ lhs.k # "Str" /\ rhs.k = "Str" -> Str(Display(lhs) \o rhs.s)
      [] op = "Plus" /\ IsNumeric(lhs) /\ IsNumeric(rhs) -> Number(to_f64(lhs) + to_f64(rhs))
      [] op = "Minus" /\ IsNumeric(lhs) /\ IsNumeric(rhs) -> Number(to_f64(lhs) - to_f64(rhs))
      [] op = "Star" /\ IsNumeric(lhs) /\ IsNumeric(rhs) -> Number(to_f64(lhs) * to_f64(rhs))
      [] op = "Greater" /\ IsNumeric(lhs) /\ IsNumeric(rhs) -> Bool(to_f64(lhs) > to_f64(rhs))
      [] op = "GreaterEqual" /\ IsNumeric(lhs) /\ IsNumeric(rhs) ->
            Bool(to_f64(lhs) >= to_f64(rhs))
      [] op = "Less" /\ IsNumeric(lhs) /\ IsNumeric(rhs) -> Bool(to_f64(lhs) < to_f64(rhs))
      [] op = "LessEqual" /\ IsNumeric(lhs) /\ IsNumeric(rhs) ->
            Bool(to_f64(lhs) <= to_f64(rhs))
      [] op = "EqualEqual" -> Bool(ObjEq(lhs, rhs))
      [] op = "BangEqual" -> Bool(~ObjEq(lhs, rhs))
      [] OTHER -> None

(***************************************************************************)
(* The inputs.  A session is the sequence of inputs given one after        *)
(* another to the same interpreter (run.rs, run_str in REPL mode): an      *)
(* input is a list of statements or, as the REPL falls back to, one        *)
(* expression.                                                             *)
(***************************************************************************)
Stmts(stmts) == [kind |-> "stmts", stmts |-> stmts]
Echo(expr) == [kind |-> "expr", expr |-> expr]

CallStmt(callee, args) == Expression(Call(callee, args))

\* var x = 2; { var x = 3; { var x = 4; print x; } print x; } print x;
ShadowBlocks ==
    <<Stmts(<<Var("x", LitNum(2)),
              Block(<<Var("x", LitNum(3)),
                      Block(<<Var("x", LitNum(4)), OutStmt(Variable("x", 1))>>),
                      OutStmt(Variable("x", 2))>>),
              OutStmt(Variable("x", 3))>>)>>

\* { var a = 1; while (true) { break; } print a; }
BreakThenRead ==
    <<Stmts(<<Block(<<Var("a", LitNum(1)),
                      While(LitBool(TRUE), Block(<<Jump("break")>>)),
                      OutStmt(Variable("a", 1))>>)>>)>>

\* { var x = 2; while (true) { var x = 3; break; } print x; }
ShadowInLoop ==
    <<Stmts(<<Block(<<Var("x", LitNum(2)),
                      While(LitBool(TRUE), Block(<<Var("x", LitNum(3)), Jump("break")>>)),
                      OutStmt(Variable("x", 1))>>)>>)>>

\* interpreter/tests.rs var_and_block
VarAndBlock ==
    <<Stmts(<<Var("foo", LitNum(2))>>),
      Echo(Variable("foo", 1)),
      Stmts(<<Var("bar", None)>>),
      Echo(Variable("bar", 2)),
      Stmts(<<Expression(Assign("bar", 3, Assign("foo", 4, LitNum(2))))>>),
      Stmts(<<Block(<<Expression(Assign("foo", 5,
                                        Binary(Variable("foo", 6), "Plus", LitNum(1)))),
                      Var("bar", None),
                      Var("foo1", Variable("foo", 7)),
                      Expression(Assign("foo1", 8,
                                        Binary(Variable("foo1", 9), "Plus", LitNum(1))))>>)>>),
      Echo(Variable("foo", 10)),
      Echo(Variable("bar", 11))>>

\* interpreter/tests.rs var_own_init, and the same with an outer local binding
VarOwnInit ==
    <<Stmts(<<Var("foo", LitNum(2))>>),
      Stmts(<<Block(<<Var("foo", Variable("foo", 1))>>)>>)>>

VarOwnInitLocal ==
    <<Stmts(<<Block(<<Var("a", LitNum(1)), OutStmt(Variable("a", 1)),
                      Block(<<Var("a", Variable("a", 2))>>)>>)>>)>>

\* the body of make_counter of interpreter/tests.rs fun_counter
MakeCounter ==
    Fun("make_counter", <<>>,
        <<Var("i", LitNum(0)),
          Fun("count", <<>>,
              <<Expression(Assign("i", 1, Binary(Variable("i", 2), "Plus", LitNum(1)))),
                Return(Variable("i", 3))>>),
          Return(Variable("count", 4))>>)

\* interpreter/tests.rs fun_counter, with n calls of the counter
FunCounter(n) ==
    <<Stmts(<<MakeCounter, Var("counter", Call(Variable("make_counter", 5), <<>>))>>)>>
    \o [i \in 1..n |-> Echo(Call(Variable("counter", 10 + i), <<>>))]

\* fun set(v) { i = v; } fun get() { return i; } over a global i, as in the spec
SetGetGlobal ==
    <<Stmts(<<Var("i", LitNum(0)),
              Fun("set", Params(<<"v">>), <<Expression(Assign("i", 1, Variable("v", 2)))>>),
              Fun("get", <<>>, <<Return(Variable("i", 3))>>)>>),
      Echo(Call(Variable("get", 4), <<>>)),
      Stmts(<<CallStmt(Variable("set", 5), <<LitNum(5)>>)>>),
      Echo(Call(Variable("get", 6), <<>>))>>

\* the same inside a block, where i has a recorded distance
SetGetLocal ==
    <<Stmts(<<Block(<<Var("i", LitNum(0)),
                      Fun("set", Params(<<"v">>),
                          <<Expression(Assign("i", 1, Variable("v", 2)))>>),
                      Fun("get", <<>>, <<Return(Variable("i", 3))>>),
                      OutStmt(Call(Variable("get", 4), <<>>)),
                      CallStmt(Variable("set", 5), <<LitNum(5)>>),
                      OutStmt(Call(Variable("get", 6), <<>>))>>)>>)>>

\* interpreter/tests.rs fun_late_init, and the same inside a block
FunLateInit ==
    <<Stmts(<<Var("a", LitNum(3))>>),
      Stmts(<<Fun("f", <<>>, <<Return(Variable("a", 1))>>)>>),
      Stmts(<<Expression(Assign("a", 2, LitNum(4)))>>),
      Echo(Call(Variable("f", 3), <<>>))>>

FunLateInitLocal ==
    <<Stmts(<<Block(<<Var("a", LitNum(3)),
                      Fun("f", <<>>, <<Return(Variable("a", 1))>>),
                      Expression(Assign("a", 2, LitNum(4))),
                      OutStmt(Call(Variable("f", 3), <<>>))>>)>>)>>

\* interpreter/tests.rs fun_arity, and a call with too many arguments
FunF ==
    Stmts(<<Var("i", LitNum(1)),
            Fun("f", Params(<<"j", "k">>),
                <<OutStmt(LitStr(<<"in f">>)),
                  Return(Binary(Grouping(Binary(Variable("i", 1), "Plus", Variable("j", 2))),
                                "Star", Variable("k", 3)))>>)>>)

FunClosure == <<FunF, Echo(Call(Variable("f", 4), <<LitNum(2), LitNum(3)>>))>>
FunArity == <<FunF, Echo(Call(Variable("f", 4), <<LitNum(2)>>))>>
FunArityMore == <<FunF, Echo(Call(Variable("f", 4), <<LitNum(2), LitNum(3), LitNum(4)>>))>>

\* interpreter/tests.rs class_init_arity
ClassInitArity ==
    <<Stmts(<<Class("Foo", None, <<>>)>>),
      Echo(Call(Variable("Foo", 1), <<LitNum(0), LitNum(1), LitNum(2)>>))>>

\* class Foo {}  Foo()
ClassNoInit ==
    <<Stmts(<<Class("Foo", None, <<>>)>>), Echo(Call(Variable("Foo", 1), <<>>))>>

\* interpreter/tests.rs class_init: init(name) { this.name = name; }
Egotist ==
    Class("Egotist", None,
          <<Fun("init", Params(<<"name">>),
                <<OutStmt(LitStr(<<"in init">>)),
                  Expression(Set(This(1), "name", Variable("name", 2)))>>),
            Fun("speak", <<>>,
                <<Return(Binary(LitStr(<<"Just ">>), "Plus", Get(This(3), "name")))>>)>>)

ClassInit ==
    <<Stmts(<<Egotist>>),
      Echo(Call(Get(Call(Variable("Egotist", 4), <<LitStr(<<"Jimmy">>)>>), "speak"), <<>>))>>

ClassInitFew == <<Stmts(<<Egotist>>), Echo(Call(Variable("Egotist", 4), <<>>))>>

ClassInitMany ==
    <<Stmts(<<Egotist>>), Echo(Call(Variable("Egotist", 4), <<LitNum(1), LitNum(2)>>))>>

\* interpreter/tests.rs class_super_method, with a wrong number of arguments as well
Teal == Class("Teal", Variable("Egotist", 5), <<>>)

ClassSuperInit ==
    <<Stmts(<<Egotist>>), Stmts(<<Teal>>),
      Echo(Call(Get(Call(Variable("Teal", 6), <<LitStr(<<"Jog">>)>>), "speak"), <<>>))>>

ClassSuperInitFew ==
    <<Stmts(<<Egotist>>), Stmts(<<Teal>>), Echo(Call(Variable("Teal", 6), <<>>))>>

\* interpreter/tests.rs class_super_rec and class_super_invalid
ClassSuperRec == <<Stmts(<<Class("Foo", Variable("Foo", 1), <<>>)>>)>>

ClassSuperInvalid ==
    <<Stmts(<<Var("False", LitBool(FALSE))>>),
      Stmts(<<Class("Foo", Variable("False", 1), <<>>)>>)>>

\* interpreter/tests.rs class_super_method_super_trap, up to the call of super
ClassSuperCall ==
    <<Stmts(<<Class("A", None, <<Fun("method", <<>>, <<Return(LitStr(<<"A method">>))>>)>>)>>),
      Stmts(<<Class("B", Variable("A", 1),
                    <<Fun("test", <<>>, <<Return(Call(Super(2, "method"), <<>>))>>)>>)>>),
      Echo(Call(Get(Call(Variable("B", 3), <<>>), "test"), <<>>))>>

\* interpreter/tests.rs and_or, if_else_and_or, class_get_invalid, class_set_invalid
AndOr ==
    <<Echo(Logical(LitStr(<<"trick">>), "Or", Variable("__TREAT__", 1))),
      Echo(Logical(LitNil, "Or", LitStr(<<"hi">>))),
      Echo(Logical(LitNil, "And", Variable("what", 2))),
      Echo(Logical(LitBool(TRUE), "And", LitStr(<<"then_what">>))),
      Stmts(<<Var("foo", LitNum(2)),
              If(Unary("Bang", Binary(Variable("foo", 3), "EqualEqual", LitNum(2))),
                 Expression(Assign("foo", 4, LitNum(42))),
                 Block(<<Expression(Assign("foo", 5, Unary("Minus", LitNum(3))))>>))>>),
      Echo(Variable("foo", 6)),
      Echo(Unary("Minus", LitStr(<<"s">>))),
      Echo(Get(LitBool(TRUE), "story")),
      Echo(Set(LitBool(TRUE), "story", LitNum(42))),
      Echo(Call(LitNum(1), <<>>)),
      Echo(Binary(LitNil, "Less", LitNum(1)))>>

\* interpreter/tests.rs class_init_return: class Foo { init() { this.x = 1; return; } }
ClassInitReturn ==
    <<Stmts(<<Class("Foo", None,
                    <<Fun("init", <<>>,
                          <<Expression(Set(This(1), "x", LitNum(1))), Return(None)>>)>>)>>),
      Echo(Call(Variable("Foo", 2), <<>>)),
      Echo(Get(Call(Variable("Foo", 3), <<>>), "x"))>>

\* class Foo { init() { this.x = 1; } }  var f = Foo();  f.init()
InitDirect ==
    <<Stmts(<<Class("Foo", None,
                    <<Fun("init", <<>>, <<Expression(Set(This(1), "x", LitNum(1)))>>)>>),
              Var("f", Call(Variable("Foo", 2), <<>>))>>),
      Echo(Call(Get(Variable("f", 3), "init"), <<>>))>>

\* class Foo { init() { return; } }  var f = Foo();  f.init()
InitDirectReturn ==
    <<Stmts(<<Class("Foo", None, <<Fun("init", <<>>, <<Return(None)>>)>>),
              Var("f", Call(Variable("Foo", 2), <<>>))>>),
      Echo(Call(Get(Variable("f", 3), "init"), <<>>))>>

\* interpreter/tests.rs class_super_method_super_trap
ClassSuperTrap ==
    <<Stmts(<<Class("A", None, <<Fun("method", <<>>, <<Return(LitStr(<<"A method">>))>>)>>)>>),
      Stmts(<<Class("B", Variable("A", 1),
                    <<Fun("method", <<>>, <<Return(LitStr(<<"B method">>))>>),
                      Fun("test", <<>>, <<Return(Call(Super(2, "method"), <<>>))>>)>>)>>),
      Stmts(<<Class("C", Variable("B", 3), <<>>)>>),
      Echo(Call(Get(Call(Variable("C", 4), <<>>), "test"), <<>>))>>

\* interpreter/tests.rs while_stmt_jump, with the bounds 2 and 3 for 3, 5 and 6
WhileStmtJump ==
    <<Stmts(<<Var("i", LitNum(1)), Var("product", LitNum(1))>>),
      Stmts(<<While(LitBool(TRUE),
                Block(<<If(Logical(Binary(Variable("i", 1), "EqualEqual", LitNum(2)), "Or",
                                   Binary(Variable("i", 2), "EqualEqual", LitNum(2))),
                           Block(<<Expression(Assign("i", 3, Binary(Variable("i", 4), "Plus",
                                                                     LitNum(1)))),
                                   Jump("continue")>>),
                           None),
                        Expression(Assign("product", 5, Binary(Variable("product", 6), "Star",
                                                               Variable("i", 7)))),
                        Expression(Assign("i", 8, Binary(Variable("i", 9), "Plus", LitNum(1)))),
                        If(Binary(Variable("i", 10), "Greater", LitNum(3)),
                           Block(<<Jump("break")>>), None)>>))>>),
      Echo(Variable("product", 11))>>

\* interpreter/tests.rs for_stmt_jump as Parser::for_stmt desugars it, with the bound 3:
\* for (;;) { product = product * i; i = i + 1; if (i > 3) break; }
ForStmtJump ==
    <<Stmts(<<Var("i", LitNum(1)), Var("product", LitNum(1))>>),
      Stmts(<<Block(<<While(LitBool(TRUE),
                Block(<<Block(<<Expression(Assign("product", 1,
                                    Binary(Variable("product", 2), "Star", Variable("i", 3)))),
                                Expression(Assign("i", 4, Binary(Variable("i", 5), "Plus",
                                                                  LitNum(1)))),
                                If(Binary(Variable("i", 6), "Greater", LitNum(3)),
                                   Jump("break"), None)>>)>>))>>)>>),
      Echo(Variable("product", 7))>>

\* var i = 0;
\* while (i < 3) { i = i + 1; if (i == 1) { continue; } print i;
\*                 if (i == 2) { break; } print 99; }
\* print 7;
LoopTrace ==
    <<Stmts(<<Var("i", LitNum(0)),
              While(Binary(Variable("i", 1), "Less", LitNum(3)),
                Block(<<Expression(Assign("i", 2, Binary(Variable("i", 3), "Plus", LitNum(1)))),
                        If(Binary(Variable("i", 4), "EqualEqual", LitNum(1)),
                           Block(<<Jump("continue")>>), None),
                        OutStmt(Variable("i", 5)),
                        If(Binary(Variable("i", 6), "EqualEqual", LitNum(2)),
                           Block(<<Jump("break")>>), None),
                        OutStmt(LitNum(99))>>)),
              OutStmt(LitNum(7))>>)>>

\* fun f() { while (true) { return 5; } print 99; }  f()
\* while (true) { nope; }
LoopReturn ==
    <<Stmts(<<Fun("f", <<>>, <<While(LitBool(TRUE), Block(<<Return(LitNum(5))>>)),
                               OutStmt(LitNum(99))>>)>>),
      Echo(Call(Variable("f", 1), <<>>)),
      Stmts(<<While(LitBool(TRUE), Block(<<Expression(Variable("nope", 2))>>)),
              OutStmt(LitNum(99))>>)>>

\* interpreter/tests.rs fun_env_trap
FunEnvTrap ==
    <<Stmts(<<Var("a", LitStr(<<"global">>)), Var("a1", None), Var("a2", None),
              Block(<<Fun("get_a", <<>>, <<Return(Variable("a", 1))>>),
                      Expression(Assign("a1", 2, Call(Variable("get_a", 3), <<>>))),
                      Var("a", LitStr(<<"block">>)),
                      Expression(Assign("a2", 4, Call(Variable("get_a", 5), <<>>)))>>)>>),
      Echo(Variable("a1", 6)),
      Echo(Variable("a2", 7))>>

\* { var a = "outer"; fun get_a() { return a; }
\*   { var a = "inner"; print get_a(); } print get_a(); }
FunEnvLocal ==
    <<Stmts(<<Block(<<Var("a", LitStr(<<"outer">>)),
                      Fun("get_a", <<>>, <<Return(Variable("a", 1))>>),
                      Block(<<Var("a", LitStr(<<"inner">>)),
                              OutStmt(Call(Variable("get_a", 2), <<>>))>>),
                      OutStmt(Call(Variable("get_a", 3), <<>>))>>)>>)>>

\* interpreter/tests.rs class_get_set
ClassGetSet ==
    <<Stmts(<<Class("Foo", None, <<>>)>>),
      Stmts(<<Var("f", Call(Variable("Foo", 1), <<>>))>>),
      Stmts(<<Expression(Set(Variable("f", 2), "bar", LitNum(10086)))>>),
      Echo(Get(Variable("f", 3), "bar")),
      Echo(Set(Variable("f", 4), "bar", LitStr(<<"foobar">>))),
      Echo(Get(Variable("f", 5), "bar"))>>

\* class Foo { m() { return 1; } get() { return this.x; } }
\* var f = Foo(); var g = Foo(); var h = f;
\* f.m = 5;  f.m  g.m()  f.x = 7;  f.get()  h.x = 8;  f.x  g.x
FieldShadow ==
    <<Stmts(<<Class("Foo", None,
                    <<Fun("m", <<>>, <<Return(LitNum(1))>>),
                      Fun("get", <<>>, <<Return(Get(This(1), "x"))>>)>>),
              Var("f", Call(Variable("Foo", 2), <<>>)),
              Var("g", Call(Variable("Foo", 3), <<>>)),
              Var("h", Variable("f", 4)),
              Expression(Set(Variable("f", 5), "m", LitNum(5)))>>),
      Echo(Get(Variable("f", 6), "m")),
      Echo(Call(Get(Variable("g", 7), "m"), <<>>)),
      Echo(Set(Variable("f", 8), "x", LitNum(7))),
      Echo(Call(Get(Variable("f", 9), "get"), <<>>)),
      Echo(Set(Variable("h", 10), "x", LitNum(8))),
      Echo(Get(Variable("f", 11), "x")),
      Echo(Get(Variable("g", 12), "x"))>>

\* interpreter/tests.rs class_method_this_save
ClassMethodThisSave ==
    <<Stmts(<<Class("Egotist", None,
                    <<Fun("speak", <<>>,
                          <<Return(Binary(LitStr(<<"Just ">>), "Plus",
                                          Get(This(1), "name")))>>)>>)>>),
      Stmts(<<Var("jimmy", Call(Variable("Egotist", 2), <<>>)),
              Expression(Set(Variable("jimmy", 3), "name", LitStr(<<"Jimmy">>)))>>),
      Stmts(<<Var("f", Get(Variable("jimmy", 4), "speak"))>>),
      Echo(Call(Variable("f", 5), <<>>))>>

\* the same with two instances: var f = a.speak; var g = b.speak;  f()  g()  f()
BindTwo ==
    <<Stmts(<<Class("Egotist", None,
                    <<Fun("speak", <<>>,
                          <<Return(Binary(LitStr(<<"Just ">>), "Plus",
                                          Get(This(1), "name")))>>)>>),
              Var("a", Call(Variable("Egotist", 2), <<>>)),
              Expression(Set(Variable("a", 3), "name", LitStr(<<"A">>))),
              Var("b", Call(Variable("Egotist", 4), <<>>)),
              Expression(Set(Variable("b", 5), "name", LitStr(<<"B">>))),
              Var("f", Get(Variable("a", 6), "speak")),
              Var("g", Get(Variable("b", 7), "speak"))>>),
      Echo(Call(Variable("f", 8), <<>>)),
      Echo(Call(Variable("g", 9), <<>>)),
      Echo(Call(Variable("f", 10), <<>>))>>

\* nope   nope = 1   nope   var x = 1;   x = 2   x   fun set() { x = 3; } set();   x
\* and interpreter/tests.rs class_super_empty_order
UndefinedGlobal ==
    <<Echo(Variable("nope", 1)),
      Echo(Assign("nope", 2, LitNum(1))),
      Echo(Variable("nope", 3)),
      Stmts(<<Var("x", LitNum(1))>>),
      Echo(Assign("x", 4, LitNum(2))),
      Echo(Variable("x", 5)),
      Stmts(<<Fun("set", <<>>, <<Expression(Assign("x", 6, LitNum(3)))>>),
              CallStmt(Variable("set", 7), <<>>)>>),
      Echo(Variable("x", 8)),
      Stmts(<<Class("Foo", Variable("Bar", 9), <<>>)>>),
      Stmts(<<Class("Bar", None, <<>>)>>)>>

\* interpreter/tests.rs class_super_method, class_super_method_super: an override, a
\* method two classes up, and a name no class on the chain defines
ClassSuperMethod ==
    <<Stmts(<<Class("A", None,
                    <<Fun("method", <<>>, <<Return(LitStr(<<"A method">>))>>),
                      Fun("base", <<>>, <<Return(LitStr(<<"A base">>))>>)>>)>>),
      Stmts(<<Class("B", Variable("A", 1),
                    <<Fun("method", <<>>, <<Return(LitStr(<<"B method">>))>>)>>)>>),
      Stmts(<<Class("C", Variable("B", 2), <<>>)>>),
      Echo(Call(Get(Call(Variable("C", 3), <<>>), "method"), <<>>)),
      Echo(Call(Get(Call(Variable("C", 4), <<>>), "base"), <<>>)),
      Echo(Get(Call(Variable("C", 5), <<>>), "nope")),
      Echo(Call(Get(Call(Variable("A", 6), <<>>), "method"), <<>>))>>

\* { var x = 1; class B { get() { return x; } } print B().get(); }
ClassLocal ==
    <<Stmts(<<Block(<<Var("x", LitNum(1)),
                      Class("B", None, <<Fun("get", <<>>, <<Return(Variable("x", 2))>>)>>),
                      OutStmt(Call(Get(Call(Variable("B", 3), <<>>), "get"), <<>>))>>)>>)>>

\* class A {}  { var x = 1; class B < A { get() { return x; } } print B().get(); }
SubclassLocal ==
    <<Stmts(<<Class("A", None, <<>>)>>),
      Stmts(<<Block(<<Var("x", LitNum(1)),
                      Class("B", Variable("A", 1),
                            <<Fun("get", <<>>, <<Return(Variable("x", 2))>>)>>),
                      OutStmt(Call(Get(Call(Variable("B", 3), <<>>), "get"), <<>>))>>)>>)>>

\* var t = 0; fun f(a) { print "in f"; } fun g(a, b, c) { print "in g"; } class K {}
\* f(t = t * 2 + 1, t = t * 2 + 2)  t  (t = 10)(t = t * 2 + 1, t = t * 2 + 2)  t
\* g(t = 1, nope, t = 2)  t  K(t = 7)  t
CallOrder ==
    LET twice(p, n) ==
            Assign("t", p, Binary(Binary(Variable("t", p + 1), "Star", LitNum(2)), "Plus",
                                  LitNum(n)))
    IN <<Stmts(<<Var("t", LitNum(0)),
                 Fun("f", Params(<<"a">>), <<OutStmt(LitStr(<<"in f">>))>>),
                 Fun("g", Params(<<"a", "b", "c">>), <<OutStmt(LitStr(<<"in g">>))>>),
                 Class("K", None, <<>>)>>),
         Echo(Call(Variable("f", 1), <<twice(2, 1), twice(4, 2)>>)),
         Echo(Variable("t", 6)),
         Echo(Call(Assign("t", 7, LitNum(10)), <<twice(8, 1), twice(10, 2)>>)),
         Echo(Variable("t", 12)),
         Echo(Call(Variable("g", 13),
                   <<Assign("t", 14, LitNum(1)), Variable("nope", 15),
                     Assign("t", 16, LitNum(2))>>)),
         Echo(Variable("t", 17)),
         Echo(Call(Variable("K", 18), <<Assign("t", 19, LitNum(7))>>)),
         Echo(Variable("t", 20))>>

\* print 1; var a = 2; break;   a
\* var b = 1; fun h() { print "in h"; } h(); return;   b
\* print 2; { var c = c; }
LateSemantic ==
    <<Stmts(<<OutStmt(LitNum(1)), Var("a", LitNum(2)), Jump("break")>>),
      Echo(Variable("a", 1)),
      Stmts(<<Var("b", LitNum(1)), Fun("h", <<>>, <<OutStmt(LitStr(<<"in h">>))>>),
              CallStmt(Variable("h", 2), <<>>), Return(None)>>),
      Echo(Variable("b", 3)),
      Stmts(<<OutStmt(LitNum(2)), Block(<<Var("c", Variable("c", 4))>>)>>)>>

\* var steps = 0;
\* for (var i = 0; i < n; i = i + 1) { steps = steps + 1; continue; }   steps
ForContinue(n) ==
    <<Stmts(<<Var("steps", LitNum(0))>>),
      Stmts(<<for_stmt(Var("i", LitNum(0)),
                       Binary(Variable("i", 1), "Less", LitNum(n)),
                       Assign("i", 2, Binary(Variable("i", 3), "Plus", LitNum(1))),
                       Block(<<Expression(Assign("steps", 4,
                                          Binary(Variable("steps", 5), "Plus", LitNum(1)))),
                               Jump("continue")>>))>>),
      Echo(Variable("steps", 6))>>

\* the same loop without the continue
ForPlain ==
    <<Stmts(<<Var("steps", LitNum(0))>>),
      Stmts(<<for_stmt(Var("i", LitNum(0)),
                       Binary(Variable("i", 1), "Less", LitNum(2)),
                       Assign("i", 2, Binary(Variable("i", 3), "Plus", LitNum(1))),
                       Block(<<Expression(Assign("steps", 4,
                                          Binary(Variable("steps", 5), "Plus",
                                                 LitNum(1))))>>))>>),
      Echo(Variable("steps", 6))>>

ForContinue0 == ForContinue(0)
ForContinue1 == ForContinue(1)
ForContinue2 == ForContinue(2)

\* fun f(x) {}   f()   var b = 1;   b
ArityRecover ==
    <<Stmts(<<Fun("f", Params(<<"x">>), <<>>)>>),
      Echo(Call(Variable("f", 1), <<>>)),
      Stmts(<<Var("b", LitNum(1))>>),
      Echo(Variable("b", 2))>>

\* fun g() { { nope; } }   g()   var b = 1;   b
BodyFailRecover ==
    <<Stmts(<<Fun("g", <<>>, <<Block(<<Expression(Variable("nope", 1))>>)>>)>>),
      Echo(Call(Variable("g", 2), <<>>)),
      Stmts(<<Var("b", LitNum(1))>>),
      Echo(Variable("b", 3))>>

\* var a = 0;   { nope; }   var b = 1;   b
BlockFailRecover ==
    <<Stmts(<<Var("a", LitNum(0))>>),
      Stmts(<<Block(<<Expression(Variable("nope", 1))>>)>>),
      Stmts(<<Var("b", LitNum(1))>>),
      Echo(Variable("b", 2))>>

\* var a = "global";   { var a = "local"; { print a; } }   a
\* with the a of the third input at the line and column of the a printed in the second
TokenCollision ==
    <<Stmts(<<Var("a", LitStr(<<"global">>))>>),
      Stmts(<<Block(<<Var("a", LitStr(<<"local">>)),
                      Block(<<OutStmt(Variable("a", 1))>>)>>)>>),
      Echo(Variable("a", 1))>>

\* fun f() {}  fun g() {}  class K {}  class L {}  var i = K();  var j = K();
\* f == f  f != f  f == g  K == K  K != K  K == L  i == i  i != i  i == j
\* true == 1  nil == false  "1" == 1  f == K
Equality ==
    LET eq(l, p, op, r, q) == Echo(Binary(Variable(l, p), op, Variable(r, q)))
    IN <<Stmts(<<Fun("f", <<>>, <<>>), Fun("g", <<>>, <<>>), Class("K", None, <<>>),
                 Class("L", None, <<>>), Var("i", Call(Variable("K", 1), <<>>)),
                 Var("j", Call(Variable("K", 2), <<>>))>>),
         eq("f", 3, "EqualEqual", "f", 4),
         eq("f", 5, "BangEqual", "f", 6),
         eq("f", 7, "EqualEqual", "g", 8),
         eq("K", 9, "EqualEqual", "K", 10),
         eq("K", 11, "BangEqual", "K", 12),
         eq("K", 13, "EqualEqual", "L", 14),
         eq("i", 15, "EqualEqual", "i", 16),
         eq("i", 17, "BangEqual", "i", 18),
         eq("i", 19, "EqualEqual", "j", 20),
         Echo(Binary(LitBool(TRUE), "EqualEqual", LitNum(1))),
         Echo(Binary(LitNil, "EqualEqual", LitBool(FALSE))),
         Echo(Binary(LitStr(<<"1">>), "EqualEqual", LitNum(1))),
         eq("f", 21, "EqualEqual", "K", 22)>>

CuratedNames ==
    {"ShadowBlocks", "BreakThenRead", "ShadowInLoop", "VarAndBlock", "VarOwnInit",
     "VarOwnInitLocal", "SetGetGlobal", "SetGetLocal", "FunLateInit", "FunLateInitLocal",
     "FunClosure", "FunArity", "FunArityMore", "ClassInitArity", "ClassNoInit", "ClassInit",
     "ClassInitFew", "ClassInitMany", "ClassSuperInit", "ClassSuperInitFew",
     "ClassSuperRec", "ClassSuperInvalid", "ClassSuperCall", "AndOr",
     "ClassInitReturn",
     "InitDirect",
     "InitDirectReturn",
     "ClassSuperTrap",
     "WhileStmtJump",
     "ForStmtJump",
     "LoopTrace",
     "LoopReturn",
     "FunEnvTrap",
     "FunEnvLocal",
     "ClassGetSet",
     "FieldShadow",
     "ClassMethodThisSave",
     "BindTwo",
     "UndefinedGlobal",
     "ClassSuperMethod",
     "ClassLocal",
     "SubclassLocal",
     "CallOrder",
     "LateSemantic",
     "ForPlain",
     "ForContinue0",
     "ForContinue1",
     "ForContinue2",
     "ArityRecover",
     "BodyFailRecover",
     "BlockFailRecover",
     "TokenCollision",
     "Equality"}

Curated(name) ==
    CASE name = "ShadowBlocks" -> ShadowBlocks
      [] name = "BreakThenRead" -> BreakThenRead
      [] name = "ShadowInLoop" -> ShadowInLoop
      [] name = "VarAndBlock" -> VarAndBlock
      [] name = "VarOwnInit" -> VarOwnInit
      [] name = "VarOwnInitLocal" -> VarOwnInitLocal
      [] name = "SetGetGlobal" -> SetGetGlobal
      [] name = "SetGetLocal" -> SetGetLocal
      [] name = "FunLateInit" -> FunLateInit
      [] name = "FunLateInitLocal" -> FunLateInitLocal
      [] name = "FunClosure" -> FunClosure
      [] name = "FunArity" -> FunArity
      [] name = "FunArityMore" -> FunArityMore
      [] name = "ClassInitArity" -> ClassInitArity
      [] name = "ClassNoInit" -> ClassNoInit
      [] name = "ClassInit" -> ClassInit
      [] name = "ClassInitFew" -> ClassInitFew
      [] name = "ClassInitMany" -> ClassInitMany
      [] name = "ClassSuperInit" -> ClassSuperInit
      [] name = "ClassSuperInitFew" -> ClassSuperInitFew
      [] name = "ClassSuperRec" -> ClassSuperRec
      [] name = "ClassSuperInvalid" -> ClassSuperInvalid
      [] name = "ClassSuperCall" -> ClassSuperCall
      [] name = "AndOr" -> AndOr
      [] name = "ClassInitReturn" -> ClassInitReturn
      [] name = "InitDirect" -> InitDirect
      [] name = "InitDirectReturn" -> InitDirectReturn
      [] name = "ClassSuperTrap" -> ClassSuperTrap
      [] name = "WhileStmtJump" -> WhileStmtJump
      [] name = "ForStmtJump" -> ForStmtJump
      [] name = "LoopTrace" -> LoopTrace
      [] name = "LoopReturn" -> LoopReturn
      [] name = "FunEnvTrap" -> FunEnvTrap
      [] name = "FunEnvLocal" -> FunEnvLocal
      [] name = "ClassGetSet" -> ClassGetSet
      [] name = "FieldShadow" -> FieldShadow
      [] name = "ClassMethodThisSave" -> ClassMethodThisSave
      [] name = "BindTwo" -> BindTwo
      [] name = "UndefinedGlobal" -> UndefinedGlobal
      [] name = "ClassSuperMethod" -> ClassSuperMethod
      [] name = "ClassLocal" -> ClassLocal
      [] name = "SubclassLocal" -> SubclassLocal
      [] name = "CallOrder" -> CallOrder
      [] name = "LateSemantic" -> LateSemantic
      [] name = "ForPlain" -> ForPlain
      [] name = "ForContinue0" -> ForContinue0
      [] name = "ForContinue1" -> ForContinue1
      [] name = "ForContinue2" -> ForContinue2
      [] name = "ArityRecover" -> ArityRecover
      [] name = "BodyFailRecover" -> BodyFailRecover
      [] name = "BlockFailRecover" -> BlockFailRecover
      [] name = "TokenCollision" -> TokenCollision
      [] name = "Equality" -> Equality

(***************************************************************************)
(* Generated inputs: one statement wrapped in up to MaxNest constructs.    *)
(***************************************************************************)
Wrappers == {"block", "if", "loop", "fun", "lambda", "method", "init"}
Inners == {"break", "continue", "return", "return_val", "selfinit"}

Contexts == UNION {[1..n -> Wrappers] : n \in 0..MaxNest}

InnerStmt(inner) ==
    CASE inner = "break" -> Jump("break")
      [] inner = "continue" -> Jump("continue")
      [] inner = "return" -> Return(None)
      [] inner = "return_val" -> Return(LitNum(1))
      [] inner = "selfinit" -> Var("a", Variable("a", 0))

RECURSIVE Wrap(_, _, _)
Wrap(ctx, inner, d) ==
    IF Len(ctx) = 0 THEN <<InnerStmt(inner)>>
    ELSE LET w == Head(ctx)
             body == Wrap(Tail(ctx), inner, d + 1)
         IN CASE w = "block" -> <<Block(body)>>
              [] w = "if" -> <<If(LitBool(TRUE), Block(body), None)>>
              [] w = "loop" ->
                    <<Var("c", LitBool(TRUE)),
                      While(Variable("c", 10 * d + 1),
                            Block(<<Expression(Assign("c", 10 * d + 2, LitBool(FALSE)))>>
                                  \o body))>>
              [] w = "fun" ->
                    <<Fun("g", <<>>, body), CallStmt(Variable("g", 10 * d + 3), <<>>)>>
              [] w = "lambda" -> <<CallStmt(Lambda(<<>>, body), <<>>)>>
              [] w = "method" ->
                    <<Class("K", None, <<Fun("m", <<>>, body)>>),
                      CallStmt(Get(Call(Variable("K", 10 * d + 4), <<>>), "m"), <<>>)>>
              [] w = "init" ->
                    <<Class("K", None, <<Fun("init", <<>>, body)>>),
                      CallStmt(Variable("K", 10 * d + 5), <<>>)>>

\* a global a is declared before the wrapped statement
Generated(ctx, inner) == <<Stmts(<<Var("a", LitNum(1))>> \o Wrap(ctx, inner, 1))>>

(***************************************************************************)
(* Property accesses: a get or a set on a receiver of each kind of value.  *)
(***************************************************************************)
Receivers == {"nil", "bool", "number", "string", "fun", "lambda", "class", "instance"}

Receiver(r) ==
    CASE r = "nil" -> LitNil
      [] r = "bool" -> LitBool(TRUE)
      [] r = "number" -> LitNum(0)
      [] r = "string" -> LitStr(<<"s">>)
      [] r = "fun" -> Variable("g", 1)
      [] r = "lambda" -> Lambda(<<>>, <<>>)
      [] r = "class" -> Variable("K", 2)
      [] r = "instance" -> Call(Variable("K", 3), <<>>)

\* class J { m() {} }  class K < J {}  fun g() {}  var t = 0;
\* r.p  or  r.p = (t = 1)
\* t
Property(r, op) ==
    <<Stmts(<<Class("J", None, <<Fun("m", <<>>, <<>>)>>),
              Class("K", Variable("J", 4), <<>>),
              Fun("g", <<>>, <<>>),
              Var("t", LitNum(0))>>),
      Echo(IF op = "get" THEN Get(Receiver(r), "p")
           ELSE Set(Receiver(r), "p", Assign("t", 5, LitNum(1)))),
      Echo(Variable("t", 6))>>

(***************************************************************************)
(* Logical expressions: each kind of left operand with and / or.           *)
(***************************************************************************)
Operands == {"nil", "false", "true", "zero", "empty", "string", "number"}

Operand(l) ==
    CASE l = "nil" -> LitNil
      [] l = "false" -> LitBool(FALSE)
      [] l = "true" -> LitBool(TRUE)
      [] l = "zero" -> LitNum(0)
      [] l = "empty" -> LitStr(<<>>)
      [] l = "string" -> LitStr(<<"s">>)
      [] l = "number" -> LitNum(3)

\* l op nope  (nope is undefined)
\* l op 7
ShortCircuit(l, op) ==
    <<Echo(Logical(Operand(l), op, Variable("nope", 1))),
      Echo(Logical(Operand(l), op, LitNum(7)))>>

(***************************************************************************)
(* The sessions.                                                           *)
(***************************************************************************)
Sessions ==
    {[fam |-> "curated", name |-> n, calls |-> 0, ctx |-> <<>>, inner |-> ""] :
        n \in CuratedNames}
    \cup {[fam |-> "counter", name |-> "", calls |-> n, ctx |-> <<>>, inner |-> ""] :
            n \in 1..MaxCalls}
    \cup {[fam |-> "generated", name |-> "", calls |-> 0, ctx |-> c, inner |-> j] :
            c \in Contexts, j \in Inners}
    \cup {[fam |-> "receiver", name |-> r, calls |-> 0, ctx |-> <<>>, inner |-> o] :
            r \in Receivers, o \in {"get", "set"}}
    \cup {[fam |-> "logical", name |-> l, calls |-> 0, ctx |-> <<>>, inner |-> o] :
            l \in Operands, o \in {"And", "Or"}}

Inputs(s) ==
    CASE s.fam = "curated" -> Curated(s.name)
      [] s.fam = "receiver" -> Property(s.name, s.inner)
      [] s.fam = "logical" -> ShortCircuit(s.name, s.inner)
      [] s.fam = "counter" -> FunCounter(s.calls)
      [] s.fam = "generated" -> Generated(s.ctx, s.inner)

(***************************************************************************)
(* The interpreter: Interpreter { env, globals, locals } plus the heaps,   *)
(* the printed output, and the machine's control and continuation.         *)
(***************************************************************************)
VARIABLES sid, idx, phase, locals, envs, env, insts, uids, ctrl, kont, out, results

vars == <<sid, idx, phase, locals, envs, env, insts, uids, ctrl, kont, out, results>>

globals == 1

CStmt(stmt) == [m |-> "stmt", s |-> stmt]
CExpr(expr) == [m |-> "expr", e |-> expr]
CVal(obj) == [m |-> "val", v |-> obj]
COk == [m |-> "ok"]
CErr(e) == [m |-> "err", e |-> e]
CCall(callee, args) == [m |-> "call", callee |-> callee, args |-> args]
CIdle == [m |-> "idle"]

Ok(v) == [k |-> "Ok", v |-> v]
Err(e) == [k |-> "Err", e |-> e]

Top == kont[Len(kont)]
Pop == SubSeq(kont, 1, Len(kont) - 1)
Push(frame) == Append(kont, frame)
Replace(frame) == [kont EXCEPT ![Len(kont)] = frame]

Running == phase = "run"
\* a new environment may be allocated
Room == Len(envs) < MaxEnvs
NewEnv == Len(envs) + 1

\* Interpreter::lookup
\* Env::lookup: the innermost binding along the chain of outer environments
RECURSIVE lookup_with_env(_, _, _)
lookup_with_env(heap, this, ident) ==
    IF this = 0 THEN None
    ELSE IF ident \in DOMAIN heap[this].dict THEN heap[this].dict[ident]
    ELSE lookup_with_env(heap, heap[this].outer, ident)

\* a lookup that walks the chain from the current environment, whatever was resolved
lookup_by_chain(name) == lookup_with_env(envs, env, name.lexeme)

lookup(name) ==
    IF name \in DOMAIN locals
    THEN LET it == outer_nth(envs, env, locals[name])
         IN IF it = 0 THEN None ELSE lookup_dict(envs, it, name.lexeme)
    ELSE lookup_dict(envs, globals, name.lexeme)

\* assign_at writing into the current environment, whatever the distance
assign_at_current(dist) == env

\* Interpreter::assign_at: the environment written to, 0 when out of range
assign_at(dist) == outer_nth(envs, env, dist)

Init ==
    /\ sid \in Sessions
    /\ idx = 1
    /\ phase = "idle"
    /\ locals = <<>>
    /\ envs = <<[dict |-> <<>>, outer |-> 0]>>
    /\ env = globals
    /\ insts = <<>>
    /\ uids = 0
    /\ ctrl = CIdle
    /\ kont = <<>>
    /\ out = <<>>
    /\ results = <<>>

(***************************************************************************)
(* run_str: resolve the input, then execute it.                            *)
(***************************************************************************)
RunStr ==
    /\ phase = "idle"
    /\ idx <= Len(Inputs(sid))
    /\ LET input == Inputs(sid)[idx]
           r == IF input.kind = "stmts" THEN resolve(locals, input.stmts)
                ELSE resolve_expr(ResolverNew(locals), input.expr)
       IN IF r.err # NoErr
          THEN /\ results' = Append(results, Err(SemanticError(r.err)))
               /\ idx' = idx + 1
               /\ UNCHANGED <<phase, locals, ctrl, kont>>
          ELSE /\ locals' = r.locals
               /\ phase' = "run"
               /\ IF input.kind = "stmts"
                  THEN kont' = <<[f |-> "Top", rest |-> input.stmts]>> /\ ctrl' = COk
                  ELSE kont' = <<[f |-> "TopExpr"]>> /\ ctrl' = CExpr(input.expr)
               /\ UNCHANGED <<results, idx>>
    /\ UNCHANGED <<sid, envs, env, insts, uids, out>>

\* exec_stmts / run_str return to the host
TopDone ==
    /\ Running
    /\ \/ Top.f = "Top" /\ ctrl.m = "ok" /\ Top.rest = <<>>
          /\ results' = Append(results, Ok(None))
       \/ Top.f = "TopExpr" /\ ctrl.m = "val"
          /\ results' = Append(results, Ok(ctrl.v))
       \/ Top.f \in {"Top", "TopExpr"} /\ ctrl.m = "err"
          /\ results' = Append(results, Err(ctrl.e))
    /\ phase' = "idle"
    /\ idx' = idx + 1
    /\ ctrl' = CIdle
    /\ kont' = <<>>
    /\ UNCHANGED <<sid, locals, envs, env, insts, uids, out>>

\* try_for_each over the statements of an input, a block or a function body
NextStmt ==
    /\ Running
    /\ ctrl.m = "ok"
    /\ Top.f \in {"Top", "Block", "Body"}
    /\ Top.rest # <<>>
    /\ ctrl' = CStmt(Head(Top.rest))
    /\ kont' = Replace([Top EXCEPT !.rest = Tail(@)])
    /\ UNCHANGED <<sid, idx, phase, locals, envs, env, insts, uids, out, results>>

\* the operator ? on an Err: the suspended call returns the error as it is
Propagate ==
    /\ Running
    /\ ctrl.m = "err"
    /\ Top.f \notin {"Top", "TopExpr", "Body", "Block"}
    /\ ~(Top.f = "WhileBody" /\ ctrl.e.k \in {"Break", "Continue"})
    /\ kont' = Pop
    /\ UNCHANGED <<sid, idx, phase, locals, envs, env, insts, uids, ctrl, out, results>>

(***************************************************************************)
(* Interpreter::exec (interpreter/stmt.rs)                                 *)
(***************************************************************************)
ExecBlock ==
    /\ Running /\ ctrl.m = "stmt" /\ ctrl.s.k = "Block"
    /\ Room
    /\ envs' = Append(envs, from_outer(env))
    /\ env' = NewEnv
    /\ kont' = Push([f |-> "Block", rest |-> ctrl.s.stmts, old_env |-> env])
    /\ ctrl' = COk
    /\ UNCHANGED <<sid, idx, phase, locals, insts, uids, out, results>>

\* the statements of the block returned Ok: switch back
BlockExit ==
    /\ Running /\ ctrl.m = "ok" /\ Top.f = "Block" /\ Top.rest = <<>>
    /\ env' = Top.old_env
    /\ kont' = Pop
    /\ UNCHANGED <<sid, idx, phase, locals, envs, insts, uids, ctrl, out, results>>

\* a statement of the block returned Err: ? returns before the switch back
BlockPropagate ==
    /\ Running /\ ctrl.m = "err" /\ Top.f = "Block"
    /\ kont' = Pop
    /\ UNCHANGED <<sid, idx, phase, locals, envs, env, insts, uids, ctrl, out, results>>

ExecClass ==
    /\ Running /\ ctrl.m = "stmt" /\ ctrl.s.k = "Class"
    /\ IF ctrl.s.superclass # None
       THEN /\ kont' = Push([f |-> "ClassSup", stmt |-> ctrl.s, env |-> env])
            /\ ctrl' = CExpr(ctrl.s.superclass)
            /\ UNCHANGED <<envs, uids>>
       ELSE /\ envs' = insert_val(envs, env, ctrl.s.name.lexeme,
                           ClassNew(uids + 1, ctrl.s.name.lexeme, None,
                                    class_methods(ctrl.s.methods, env)))
            /\ uids' = uids + 1
            /\ ctrl' = COk
            /\ UNCHANGED kont
    /\ UNCHANGED <<sid, idx, phase, locals, env, insts, out, results>>

\* the superclass expression has its value
ClassSuper ==
    /\ Running /\ ctrl.m = "val" /\ Top.f = "ClassSup"
    /\ Room
    /\ LET stmt == Top.stmt
           sup == ctrl.v
           super_env == [from_outer(Top.env) EXCEPT !.dict = ("super" :> sup) @@ @]
       IN IF sup.k = "Class"
          THEN /\ envs' = insert_val(Append(envs, super_env), env, stmt.name.lexeme,
                              ClassNew(uids + 1, stmt.name.lexeme, sup,
                                       class_methods(stmt.methods, NewEnv)))
               /\ uids' = uids + 1
               /\ ctrl' = COk
          ELSE /\ ctrl' = CErr(RuntimeError("class cannot inherit from non-class value"))
               /\ UNCHANGED <<envs, uids>>
    /\ kont' = Pop
    /\ UNCHANGED <<sid, idx, phase, locals, env, insts, out, results>>

ExecExpression ==
    /\ Running /\ ctrl.m = "stmt" /\ ctrl.s.k = "Expression"
    /\ kont' = Push([f |-> "ExprStmt"])
    /\ ctrl' = CExpr(ctrl.s.expr)
    /\ UNCHANGED <<sid, idx, phase, locals, envs, env, insts, uids, out, results>>

ExpressionDone ==
    /\ Running /\ ctrl.m = "val" /\ Top.f = "ExprStmt"
    /\ kont' = Pop
    /\ ctrl' = COk
    /\ UNCHANGED <<sid, idx, phase, locals, envs, env, insts, uids, out, results>>

ExecFun ==
    /\ Running /\ ctrl.m = "stmt" /\ ctrl.s.k = "Fun"
    /\ envs' = insert_val(envs, env, ctrl.s.name.lexeme,
                          ClosureNew(ctrl.s.name.lexeme, ctrl.s.params, ctrl.s.body, env))
    /\ ctrl' = COk
    /\ UNCHANGED <<sid, idx, phase, locals, env, insts, uids, kont, out, results>>

ExecIf ==
    /\ Running /\ ctrl.m = "stmt" /\ ctrl.s.k = "If"
    /\ kont' = Push([f |-> "If", then_stmt |-> ctrl.s.then_stmt,
                     else_stmt |-> ctrl.s.else_stmt])
    /\ ctrl' = CExpr(ctrl.s.cond)
    /\ UNCHANGED <<sid, idx, phase, locals, envs, env, insts, uids, out, results>>

IfBranch ==
    /\ Running /\ ctrl.m = "val" /\ Top.f = "If"
    /\ kont' = Pop
    /\ ctrl' = IF to_bool(ctrl.v) THEN CStmt(Top.then_stmt)
               ELSE IF Top.else_stmt # None THEN CStmt(Top.else_stmt)
               ELSE COk
    /\ UNCHANGED <<sid, idx, phase, locals, envs, env, insts, uids, out, results>>

ExecJump ==
    /\ Running /\ ctrl.m = "stmt" /\ ctrl.s.k = "Jump"
    /\ ctrl' = CErr(IF ctrl.s.kw = "break" THEN BreakMarker ELSE ContinueMarker)
    /\ UNCHANGED <<sid, idx, phase, locals, envs, env, insts, uids, kont, out, results>>

ExecPrint ==
    /\ Running /\ ctrl.m = "stmt" /\ ctrl.s.k = "Print"
    /\ kont' = Push([f |-> "Print"])
    /\ ctrl' = CExpr(ctrl.s.expr)
    /\ UNCHANGED <<sid, idx, phase, locals, envs, env, insts, uids, out, results>>

PrintDone ==
    /\ Running /\ ctrl.m = "val" /\ Top.f = "Print"
    /\ out' = Append(out, ctrl.v)
    /\ kont' = Pop
    /\ ctrl' = COk
    /\ UNCHANGED <<sid, idx, phase, locals, envs, env, insts, uids, results>>

ExecReturn ==
    /\ Running /\ ctrl.m = "stmt" /\ ctrl.s.k = "Return"
    /\ kont' = Push([f |-> "Return"])
    /\ ctrl' = CExpr(unwrap_or_default(ctrl.s.val))
    /\ UNCHANGED <<sid, idx, phase, locals, envs, env, insts, uids, out, results>>

ReturnDone ==
    /\ Running /\ ctrl.m = "val" /\ Top.f = "Return"
    /\ kont' = Pop
    /\ ctrl' = CErr(ReturnMarker(ctrl.v))
    /\ UNCHANGED <<sid, idx, phase, locals, envs, env, insts, uids, out, results>>

ExecVar ==
    /\ Running /\ ctrl.m = "stmt" /\ ctrl.s.k = "Var"
    /\ kont' = Push([f |-> "Var", name |-> ctrl.s.name])
    /\ ctrl' = CExpr(unwrap_or_default(ctrl.s.init))
    /\ UNCHANGED <<sid, idx, phase, locals, envs, env, insts, uids, out, results>>

VarDone ==
    /\ Running /\ ctrl.m = "val" /\ Top.f = "Var"
    /\ envs' = insert_val(envs, env, Top.name.lexeme, ctrl.v)
    /\ kont' = Pop
    /\ ctrl' = COk
    /\ UNCHANGED <<sid, idx, phase, locals, env, insts, uids, out, results>>

ExecWhile ==
    /\ Running /\ ctrl.m = "stmt" /\ ctrl.s.k = "While"
    /\ kont' = Push([f |-> "WhileCond", cond |-> ctrl.s.cond, body |-> ctrl.s.body])
    /\ ctrl' = CExpr(ctrl.s.cond)
    /\ UNCHANGED <<sid, idx, phase, locals, envs, env, insts, uids, out, results>>

\* the condition has its value
WhileTest ==
    /\ Running /\ ctrl.m = "val" /\ Top.f = "WhileCond"
    /\ IF to_bool(ctrl.v)
       THEN kont' = Replace([Top EXCEPT !.f = "WhileBody"]) /\ ctrl' = CStmt(Top.body)
       ELSE kont' = Pop /\ ctrl' = COk
    /\ UNCHANGED <<sid, idx, phase, locals, envs, env, insts, uids, out, results>>

\* the body returned Ok or the ContinueMarker: evaluate the condition again
WhileNext ==
    /\ Running /\ Top.f = "WhileBody"
    /\ ctrl.m = "ok" \/ (ctrl.m = "err" /\ ctrl.e.k = "Continue")
    /\ kont' = Replace([Top EXCEPT !.f = "WhileCond"])
    /\ ctrl' = CExpr(Top.cond)
    /\ UNCHANGED <<sid, idx, phase, locals, envs, env, insts, uids, out, results>>

\* a loop that takes the BreakMarker for the ContinueMarker
WhileBreak_as_continue ==
    /\ Running /\ Top.f = "WhileBody"
    /\ ctrl.m = "err" /\ ctrl.e.k = "Break"
    /\ kont' = Replace([Top EXCEPT !.f = "WhileCond"])
    /\ ctrl' = CExpr(Top.cond)
    /\ UNCHANGED <<sid, idx, phase, locals, envs, env, insts, uids, out, results>>

\* the body returned the BreakMarker
WhileBreak ==
    /\ Running /\ Top.f = "WhileBody"
    /\ ctrl.m = "err" /\ ctrl.e.k = "Break"
    /\ kont' = Pop
    /\ ctrl' = COk
    /\ UNCHANGED <<sid, idx, phase, locals, envs, env, insts, uids, out, results>>

(***************************************************************************)
(* Interpreter::eval (interpreter/expr.rs)                                 *)
(***************************************************************************)
Undefined == RuntimeError("identifier is undefined")

\* an assignment that does not look the name up first
EvalAssign_unchecked ==
    /\ Running /\ ctrl.m = "expr" /\ ctrl.e.k = "Assign"
    /\ kont' = Push([f |-> "Assign", name |-> ctrl.e.name])
    /\ ctrl' = CExpr(ctrl.e.val)
    /\ UNCHANGED <<sid, idx, phase, locals, envs, env, insts, uids, out, results>>

EvalAssign ==
    /\ Running /\ ctrl.m = "expr" /\ ctrl.e.k = "Assign"
    /\ IF lookup(ctrl.e.name) = None
       THEN ctrl' = CErr(Undefined) /\ UNCHANGED kont
       ELSE /\ kont' = Push([f |-> "Assign", name |-> ctrl.e.name])
            /\ ctrl' = CExpr(ctrl.e.val)
    /\ UNCHANGED <<sid, idx, phase, locals, envs, env, insts, uids, out, results>>

\* the right-hand side has its value: assign_at, or insert into the globals
AssignDone ==
    /\ Running /\ ctrl.m = "val" /\ Top.f = "Assign"
    /\ LET name == Top.name
           target == IF name \in DOMAIN locals THEN assign_at(locals[name]) ELSE globals
       IN IF target = 0
          THEN /\ ctrl' = CErr(InternalError("distance out of range"))
               /\ UNCHANGED envs
          ELSE /\ envs' = insert_val(envs, target, name.lexeme, ctrl.v)
               /\ UNCHANGED ctrl
    /\ kont' = Pop
    /\ UNCHANGED <<sid, idx, phase, locals, env, insts, uids, out, results>>

EvalBinary ==
    /\ Running /\ ctrl.m = "expr" /\ ctrl.e.k = "Binary"
    /\ kont' = Push([f |-> "BinaryLhs", op |-> ctrl.e.op, rhs |-> ctrl.e.rhs])
    /\ ctrl' = CExpr(ctrl.e.lhs)
    /\ UNCHANGED <<sid, idx, phase, locals, envs, env, insts, uids, out, results>>

BinaryRhs ==
    /\ Running /\ ctrl.m = "val" /\ Top.f = "BinaryLhs"
    /\ kont' = Replace([f |-> "BinaryRhs", op |-> Top.op, lhs |-> ctrl.v])
    /\ ctrl' = CExpr(Top.rhs)
    /\ UNCHANGED <<sid, idx, phase, locals, envs, env, insts, uids, out, results>>

BinaryDone ==
    /\ Running /\ ctrl.m = "val" /\ Top.f = "BinaryRhs"
    /\ LET res == BinaryOp(Top.op, Top.lhs, ctrl.v)
       IN ctrl' = IF res = None THEN CErr(RuntimeError("binary operator undefined"))
                  ELSE CVal(res)
    /\ kont' = Pop
    /\ UNCHANGED <<sid, idx, phase, locals, envs, env, insts, uids, out, results>>

\* the callee is evaluated first, then the arguments from left to right
EvalCall ==
    /\ Running /\ ctrl.m = "expr" /\ ctrl.e.k = "Call"
    /\ kont' = Push([f |-> "Call", has_callee |-> FALSE, callee |-> None, args |-> <<>>,
                     rest |-> ctrl.e.args])
    /\ ctrl' = CExpr(ctrl.e.callee)
    /\ UNCHANGED <<sid, idx, phase, locals, envs, env, insts, uids, out, results>>

\* a call that evaluates its arguments from the last to the first
CallArg_right_to_left ==
    /\ Running /\ ctrl.m = "val" /\ Top.f = "Call"
    /\ LET callee == IF Top.has_callee THEN Top.callee ELSE ctrl.v
           args == IF Top.has_callee THEN <<ctrl.v>> \o Top.args ELSE Top.args
           n == Len(Top.rest)
       IN IF Top.rest = <<>>
          THEN kont' = Pop /\ ctrl' = CCall(callee, args)
          ELSE /\ kont' = Replace([Top EXCEPT !.has_callee = TRUE, !.callee = callee,
                                              !.args = args, !.rest = SubSeq(@, 1, n - 1)])
               /\ ctrl' = CExpr(Top.rest[n])
    /\ UNCHANGED <<sid, idx, phase, locals, envs, env, insts, uids, out, results>>

\* the callee or an argument has its value: the next argument, else the dispatch
CallArg ==
    /\ Running /\ ctrl.m = "val" /\ Top.f = "Call"
    /\ LET callee == IF Top.has_callee THEN Top.callee ELSE ctrl.v
           args == IF Top.has_callee THEN Append(Top.args, ctrl.v) ELSE Top.args
       IN IF Top.rest = <<>>
          THEN kont' = Pop /\ ctrl' = CCall(callee, args)
          ELSE /\ kont' = Replace([Top EXCEPT !.has_callee = TRUE, !.callee = callee,
                                              !.args = args, !.rest = Tail(@)])
               /\ ctrl' = CExpr(Head(Top.rest))
    /\ UNCHANGED <<sid, idx, phase, locals, envs, env, insts, uids, out, results>>

\* the parameter environment of an application
apply_env(clos, args) ==
    [from_outer(clos.env) EXCEPT
        !.dict = LET n == IF Len(args) < Len(clos.params) THEN Len(args)
                          ELSE Len(clos.params)
                 IN [ident \in {clos.params[i].lexeme : i \in 1..n} |->
                        args[CHOOSE i \in 1..n :
                                /\ clos.params[i].lexeme = ident
                                /\ \A j \in (i + 1)..n : clos.params[j].lexeme # ident]]]

\* Closure::apply without the arity check
arity_ok_unchecked(clos, args) == TRUE

\* the arity check of Closure::apply
arity_ok(clos, args) == Len(clos.params) = Len(args)

\* Closure::apply up to the execution of the body
Apply ==
    /\ Running /\ ctrl.m = "call" /\ ctrl.callee.k = "NativeFn"
    /\ Room
    /\ LET clos == ctrl.callee
           args == ctrl.args
       IN IF ~arity_ok(clos, args)
          THEN /\ envs' = Append(envs, from_outer(clos.env))
               /\ ctrl' = CErr(ArityError(Len(clos.params), Len(args)))
               /\ UNCHANGED kont
          ELSE /\ envs' = Append(envs, apply_env(clos, args))
               /\ kont' = Push([f |-> "Body", rest |-> clos.body, old_env |-> env,
                                clos_env |-> clos.env, is_init |-> clos.is_init])
               /\ ctrl' = COk
    /\ env' = NewEnv
    /\ UNCHANGED <<sid, idx, phase, locals, insts, uids, out, results>>

\* Closure::apply after the body: switch back, then turn the result into a value
ApplyExit ==
    /\ Running /\ Top.f = "Body"
    /\ (ctrl.m = "ok" /\ Top.rest = <<>>) \/ ctrl.m = "err"
    /\ env' = Top.old_env
    /\ kont' = Pop
    /\ ctrl' = IF ctrl.m = "err"
               THEN IF ctrl.e.k = "Return" THEN CVal(ctrl.e.v) ELSE ctrl
               ELSE IF Top.is_init
               THEN IF lookup_dict(envs, Top.clos_env, "this") = None
                    THEN CErr(InternalError("this not found in closure environment"))
                    ELSE CVal(lookup_dict(envs, Top.clos_env, "this"))
               ELSE CVal(Nil)
    /\ UNCHANGED <<sid, idx, phase, locals, envs, insts, uids, out, results>>

\* calling a class: a new instance, initialized by init when the class has one
CallClass ==
    /\ Running /\ ctrl.m = "call" /\ ctrl.callee.k = "Class"
    /\ Room
    /\ LET instance == Instance(Len(insts) + 1)
           init == method(ctrl.callee, "init")
       IN /\ insts' = Append(insts, [class |-> ctrl.callee, fields |-> <<>>])
          /\ IF init # None
             THEN /\ envs' = Append(envs, bind_env(init, instance))
                  /\ kont' = Push([f |-> "Init", instance |-> instance])
                  /\ ctrl' = CCall([init EXCEPT !.env = NewEnv], ctrl.args)
             ELSE /\ ctrl' = IF ctrl.args # <<>> THEN CErr(ArityError(0, Len(ctrl.args)))
                             ELSE CVal(instance)
                  /\ UNCHANGED <<envs, kont>>
    /\ UNCHANGED <<sid, idx, phase, locals, env, uids, out, results>>

\* the call of a class yielding what init returned
InitDone_init_value ==
    /\ Running /\ ctrl.m = "val" /\ Top.f = "Init"
    /\ kont' = Pop
    /\ UNCHANGED <<sid, idx, phase, locals, envs, env, insts, uids, ctrl, out, results>>

\* init returned: its value is dropped, the call yields the instance
InitDone ==
    /\ Running /\ ctrl.m = "val" /\ Top.f = "Init"
    /\ ctrl' = CVal(Top.instance)
    /\ kont' = Pop
    /\ UNCHANGED <<sid, idx, phase, locals, envs, env, insts, uids, out, results>>

CallNotCallable ==
    /\ Running /\ ctrl.m = "call" /\ ctrl.callee.k \notin {"NativeFn", "Class"}
    /\ ctrl' = CErr(RuntimeError("the object is not callable"))
    /\ UNCHANGED <<sid, idx, phase, locals, envs, env, insts, uids, kont, out, results>>

EvalGet ==
    /\ Running /\ ctrl.m = "expr" /\ ctrl.e.k = "Get"
    /\ kont' = Push([f |-> "Get", name |-> ctrl.e.name])
    /\ ctrl' = CExpr(ctrl.e.obj)
    /\ UNCHANGED <<sid, idx, phase, locals, envs, env, insts, uids, out, results>>

\* a get whose bind writes this into the environment the method captured
GetDone_bind_in_place ==
    /\ Running /\ ctrl.m = "val" /\ Top.f = "Get"
    /\ Room
    /\ IF ctrl.v.k # "Instance"
       THEN ctrl' = CErr(RuntimeError("the object cannot have properties")) /\ UNCHANGED envs
       ELSE LET i == insts[ctrl.v.uid]
                it == method(i.class, Top.name)
            IN IF Top.name \in DOMAIN i.fields
               THEN ctrl' = CVal(i.fields[Top.name]) /\ UNCHANGED envs
               ELSE IF it # None
               THEN /\ envs' = insert_val(envs, it.env, "this", ctrl.v)
                    /\ ctrl' = CVal(it)
               ELSE /\ ctrl' = CErr(RuntimeError("property undefined for the given object"))
                    /\ UNCHANGED envs
    /\ kont' = Pop
    /\ UNCHANGED <<sid, idx, phase, locals, env, insts, uids, out, results>>

\* Instance::get: the field, else the method of the class bound to the instance
GetDone ==
    /\ Running /\ ctrl.m = "val" /\ Top.f = "Get"
    /\ Room
    /\ IF ctrl.v.k # "Instance"
       THEN ctrl' = CErr(RuntimeError("the object cannot have properties")) /\ UNCHANGED envs
       ELSE LET i == insts[ctrl.v.uid]
                it == method(i.class, Top.name)
            IN IF Top.name \in DOMAIN i.fields
               THEN ctrl' = CVal(i.fields[Top.name]) /\ UNCHANGED envs
               ELSE IF it # None
               THEN /\ envs' = Append(envs, bind_env(it, ctrl.v))
                    /\ ctrl' = CVal([it EXCEPT !.env = NewEnv])
               ELSE /\ ctrl' = CErr(RuntimeError("property undefined for the given object"))
                    /\ UNCHANGED envs
    /\ kont' = Pop
    /\ UNCHANGED <<sid, idx, phase, locals, env, insts, uids, out, results>>

EvalGrouping ==
    /\ Running /\ ctrl.m = "expr" /\ ctrl.e.k = "Grouping"
    /\ ctrl' = CExpr(ctrl.e.inner)
    /\ UNCHANGED <<sid, idx, phase, locals, envs, env, insts, uids, kont, out, results>>

EvalLambda ==
    /\ Running /\ ctrl.m = "expr" /\ ctrl.e.k = "Lambda"
    /\ ctrl' = CVal(ClosureNew("", ctrl.e.params, ctrl.e.body, env))
    /\ UNCHANGED <<sid, idx, phase, locals, envs, env, insts, uids, kont, out, results>>

EvalLiteral ==
    /\ Running /\ ctrl.m = "expr" /\ ctrl.e.k = "Literal"
    /\ ctrl' = CVal(ctrl.e.lit)
    /\ UNCHANGED <<sid, idx, phase, locals, envs, env, insts, uids, kont, out, results>>

EvalLogical ==
    /\ Running /\ ctrl.m = "expr" /\ ctrl.e.k = "Logical"
    /\ kont' = Push([f |-> "Logical", op |-> ctrl.e.op, rhs |-> ctrl.e.rhs])
    /\ ctrl' = CExpr(ctrl.e.lhs)
    /\ UNCHANGED <<sid, idx, phase, locals, envs, env, insts, uids, out, results>>

LogicalDone ==
    /\ Running /\ ctrl.m = "val" /\ Top.f = "Logical"
    /\ ctrl' = IF Top.op = "And"
               THEN IF to_bool(ctrl.v) THEN CExpr(Top.rhs) ELSE ctrl
               ELSE IF to_bool(ctrl.v) THEN ctrl ELSE CExpr(Top.rhs)
    /\ kont' = Pop
    /\ UNCHANGED <<sid, idx, phase, locals, envs, env, insts, uids, out, results>>

EvalSet ==
    /\ Running /\ ctrl.m = "expr" /\ ctrl.e.k = "Set"
    /\ kont' = Push([f |-> "SetObj", name |-> ctrl.e.name, to |-> ctrl.e.to])
    /\ ctrl' = CExpr(ctrl.e.obj)
    /\ UNCHANGED <<sid, idx, phase, locals, envs, env, insts, uids, out, results>>

\* a set that ignores a receiver without properties
SetObj_ignore ==
    /\ Running /\ ctrl.m = "val" /\ Top.f = "SetObj"
    /\ IF ctrl.v.k = "Instance"
       THEN /\ kont' = Replace([f |-> "SetTo", name |-> Top.name, i |-> ctrl.v])
            /\ ctrl' = CExpr(Top.to)
       ELSE /\ kont' = Pop
            /\ ctrl' = CVal(Nil)
    /\ UNCHANGED <<sid, idx, phase, locals, envs, env, insts, uids, out, results>>

SetObj ==
    /\ Running /\ ctrl.m = "val" /\ Top.f = "SetObj"
    /\ IF ctrl.v.k = "Instance"
       THEN /\ kont' = Replace([f |-> "SetTo", name |-> Top.name, i |-> ctrl.v])
            /\ ctrl' = CExpr(Top.to)
       ELSE /\ kont' = Pop
            /\ ctrl' = CErr(RuntimeError("the object cannot have properties"))
    /\ UNCHANGED <<sid, idx, phase, locals, envs, env, insts, uids, out, results>>

\* a set that writes the field into every instance of the class
SetDone_per_class ==
    /\ Running /\ ctrl.m = "val" /\ Top.f = "SetTo"
    /\ insts' = [j \in DOMAIN insts |->
                    IF insts[j].class.uid = insts[Top.i.uid].class.uid
                    THEN [insts[j] EXCEPT !.fields = (Top.name :> ctrl.v) @@ @]
                    ELSE insts[j]]
    /\ kont' = Pop
    /\ UNCHANGED <<sid, idx, phase, locals, envs, env, uids, ctrl, out, results>>

\* Instance::set
SetDone ==
    /\ Running /\ ctrl.m = "val" /\ Top.f = "SetTo"
    /\ insts' = [insts EXCEPT ![Top.i.uid].fields = (Top.name :> ctrl.v) @@ @]
    /\ kont' = Pop
    /\ UNCHANGED <<sid, idx, phase, locals, envs, env, uids, ctrl, out, results>>

EvalSuper ==
    /\ Running /\ ctrl.m = "expr" /\ ctrl.e.k = "Super"
    /\ Room
    /\ IF ctrl.e.kw \notin DOMAIN locals
       THEN ctrl' = CErr(RuntimeError("identifier super is undefined")) /\ UNCHANGED envs
       ELSE LET distance == locals[ctrl.e.kw]
                this_env == IF distance = 0 THEN 0 ELSE outer_nth(envs, env, distance - 1)
                sup_env == outer_nth(envs, this_env, 1)
                this == IF this_env = 0 THEN None ELSE lookup_dict(envs, this_env, "this")
                sup == IF sup_env = 0 THEN None ELSE lookup_dict(envs, sup_env, "super")
                it == IF sup = None THEN None ELSE method(sup, ctrl.e.method)
            IN IF this_env = 0 \/ sup_env = 0
               THEN ctrl' = CErr(InternalError("distance out of range")) /\ UNCHANGED envs
               ELSE IF this = None
               THEN ctrl' = CErr(RuntimeError("identifier this is undefined"))
                    /\ UNCHANGED envs
               ELSE IF sup = None
               THEN ctrl' = CErr(RuntimeError("identifier super is undefined"))
                    /\ UNCHANGED envs
               ELSE IF it = None
               THEN ctrl' = CErr(RuntimeError("property undefined for the given object"))
                    /\ UNCHANGED envs
               ELSE /\ envs' = Append(envs, bind_env(it, this))
                    /\ ctrl' = CVal([it EXCEPT !.env = NewEnv])
    /\ UNCHANGED <<sid, idx, phase, locals, env, insts, uids, kont, out, results>>

EvalThis ==
    /\ Running /\ ctrl.m = "expr" /\ ctrl.e.k = "This"
    /\ ctrl' = IF lookup(ctrl.e.kw) = None
               THEN CErr(RuntimeError("identifier this is undefined"))
               ELSE CVal(lookup(ctrl.e.kw))
    /\ UNCHANGED <<sid, idx, phase, locals, envs, env, insts, uids, kont, out, results>>

EvalUnary ==
    /\ Running /\ ctrl.m = "expr" /\ ctrl.e.k = "Unary"
    /\ kont' = Push([f |-> "Unary", op |-> ctrl.e.op])
    /\ ctrl' = CExpr(ctrl.e.rhs)
    /\ UNCHANGED <<sid, idx, phase, locals, envs, env, insts, uids, out, results>>

UnaryDone ==
    /\ Running /\ ctrl.m = "val" /\ Top.f = "Unary"
    /\ ctrl' = IF Top.op = "Bang" THEN CVal(Bool(~to_bool(ctrl.v)))
               ELSE IF IsNumeric(ctrl.v) THEN CVal(Number(0 - to_f64(ctrl.v)))
               ELSE CErr(RuntimeError("unary operator undefined for the given object"))
    /\ kont' = Pop
    /\ UNCHANGED <<sid, idx, phase, locals, envs, env, insts, uids, out, results>>

EvalVariable ==
    /\ Running /\ ctrl.m = "expr" /\ ctrl.e.k = "Variable"
    /\ ctrl' = IF lookup(ctrl.e.name) = None THEN CErr(Undefined)
               ELSE CVal(lookup(ctrl.e.name))
    /\ UNCHANGED <<sid, idx, phase, locals, envs, env, insts, uids, kont, out, results>>

Next ==
    \/ RunStr \/ TopDone \/ NextStmt \/ Propagate
    \/ ExecBlock \/ BlockExit \/ BlockPropagate
    \/ ExecClass \/ ClassSuper
    \/ ExecExpression \/ ExpressionDone
    \/ ExecFun
    \/ ExecIf \/ IfBranch
    \/ ExecJump
    \/ ExecPrint \/ PrintDone
    \/ ExecReturn \/ ReturnDone
    \/ ExecVar \/ VarDone
    \/ ExecWhile \/ WhileTest \/ WhileNext \/ WhileBreak
    \/ EvalAssign \/ AssignDone
    \/ EvalBinary \/ BinaryRhs \/ BinaryDone
    \/ EvalCall \/ CallArg \/ Apply \/ ApplyExit \/ CallClass \/ InitDone \/ CallNotCallable
    \/ EvalGet \/ GetDone
    \/ EvalGrouping \/ EvalLambda \/ EvalLiteral
    \/ EvalLogical \/ LogicalDone
    \/ EvalSet \/ SetObj \/ SetDone
    \/ EvalSuper \/ EvalThis
    \/ EvalUnary \/ UnaryDone
    \/ EvalVariable

Spec == Init /\ [][Next]_vars

(***************************************************************************)
(* Vocabulary of the properties.                                           *)
(***************************************************************************)
\* every input of the session has returned
Done == phase = "idle" /\ idx > Len(Inputs(sid))

\* input i has passed the resolver, or has been rejected by it
Resolved(i) == idx > i \/ (idx = i /\ Running)

RejectedWith(i, msg) == Len(results) >= i /\ results[i] = Err(SemanticError(msg))

Rejected(i) == Len(results) >= i /\ results[i].k = "Err" /\ results[i].e.k = "Semantic"

IsCurated(name) == sid.fam = "curated" /\ sid.name = name

IsGenerated(inners) == sid.fam = "generated" /\ sid.inner \in inners

\* the wrappers that start a function body
FunLike == {"fun", "lambda", "method", "init"}

\* the innermost wrapper of ctx among kinds, "none" when there is none
Nearest(ctx, kinds) ==
    LET at == {i \in 1..Len(ctx) : ctx[i] \in kinds}
    IN IF at = {} THEN "none" ELSE ctx[CHOOSE i \in at : \A j \in at : j <= i]

\* the binding of a variable token with a recorded distance, seen from the current environment
BoundAt(name) ==
    LET it == outer_nth(envs, env, locals[name])
    IN it # 0 /\ name.lexeme \in DOMAIN envs[it].dict

\* the frames of the innermost function activation: those above the last Body frame
Activation ==
    LET bodies == {i \in 1..Len(kont) : kont[i].f = "Body"}
        from == IF bodies = {} THEN 1 ELSE (CHOOSE i \in bodies : \A j \in bodies : j <= i) + 1
    IN {kont[i] : i \in from..Len(kont)}

(***************************************************************************)
(* Properties.                                                             *)
(***************************************************************************)

\* C1: whenever evaluation reads or assigns a variable whose token has a recorded
\* distance d, the environment d outer links from the current environment binds the
\* name, in every reachable state of the execution of a program the resolver accepted.
C1_DistanceBinds ==
    Running =>
        /\ (ctrl.m = "expr" /\ ctrl.e.k \in {"Variable", "Assign"}
            /\ ctrl.e.name \in DOMAIN locals) => BoundAt(ctrl.e.name)
        /\ (ctrl.m = "val" /\ Top.f = "Assign" /\ Top.name \in DOMAIN locals)
            => BoundAt(Top.name)

\* C2: when exec of a Block returns, normally or with a Break, Continue or Return
\* signal, the current environment is again the one that was current at block entry.
C2_BlockRestoresEnv ==
    [][(Running /\ Top.f = "Block" /\ Len(kont') < Len(kont)) => env' = Top.old_env]_vars

\* C3: a read sees the innermost lexically enclosing declaration, and once a block
\* has finished a read of a name it shadowed yields the outer binding: the scoping
\* sessions print, for every read, the value of that declaration.
C3_LexicalScoping ==
    Done =>
        /\ IsCurated("ShadowBlocks") => out = <<Number(4), Number(3), Number(2)>>
        /\ IsCurated("ShadowInLoop") => out = <<Number(2)>>
        /\ IsCurated("VarAndBlock") => results[7] = Ok(Number(3)) /\ results[8] = Ok(Number(2))

\* C4: closures capture their defining environment by reference: two functions over
\* the same variable see each other's assignments, a later assignment is seen by a
\* later call, and a counter closure returns 1, then 2, ... on successive calls.
C4_ClosuresShareEnv ==
    Done =>
        /\ IsCurated("SetGetGlobal") => results[2] = Ok(Number(0)) /\ results[4] = Ok(Number(5))
        /\ IsCurated("SetGetLocal") => out = <<Number(0), Number(5)>>
        /\ IsCurated("FunLateInit") => results[4] = Ok(Number(4))
        /\ IsCurated("FunLateInitLocal") => out = <<Number(4)>>
        /\ sid.fam = "counter" =>
              \A i \in 1..sid.calls : results[i + 1] = Ok(Number(i))

\* C4 witness: the counter has been called more than once
C4_Witness == Done /\ sid.fam = "counter" /\ sid.calls >= 2

SelfInitMsg == "cannot read local Variable in its own initializer"

\* C6: resolving, in a local scope, a var declaration whose initializer reads the
\* declared name fails with "cannot read local Variable in its own initializer",
\* also when an outer or global binding of the name exists; the name is Declared
\* while its initializer is resolved and Defined afterwards.
C6_OwnInitializer ==
    /\ (IsGenerated({"selfinit"}) /\ sid.ctx # <<>> /\ Resolved(1)) => RejectedWith(1, SelfInitMsg)
    /\ (IsCurated("VarOwnInit") /\ Resolved(2)) => RejectedWith(2, SelfInitMsg)
    /\ (IsCurated("VarOwnInitLocal") /\ Resolved(1)) => RejectedWith(1, SelfInitMsg)
    /\ (IsGenerated({"selfinit"}) /\ sid.ctx = <<>> /\ Resolved(1)) => ~Rejected(1)
    /\ LET r == begin_scope(ResolverNew(locals))
           decl == Var("a", LitNum(1))
       IN /\ declare(r, decl.name).scopes[1]["a"] = "Declared"
          /\ resolve_var(r, decl).scopes[1]["a"] = "Defined"

\* C6 witness: the declaration sits in a function body and a global of that name exists
C6_Witness ==
    IsGenerated({"selfinit"}) /\ sid.ctx = <<"fun">> /\ RejectedWith(1, SelfInitMsg)

JumpMsg(inner) ==
    IF inner = "break" THEN "found break out of loop context"
    ELSE "found continue out of loop context"

C9_SelfInheritance ==
    (IsCurated("ClassSuperRec") /\ Resolved(1))
        => RejectedWith(1, "class cannot inherit from itself")

\* C10: a call checks the arity before any statement of the callee runs: a closure
\* of n parameters called with m # n arguments fails naming n and m, a class without
\* init called with arguments fails with expected 0, a class with init applies init.
C10_ArityChecked ==
    /\ [][(Running /\ ctrl.m = "call") =>
            /\ (ctrl.callee.k = "NativeFn" /\ Len(ctrl.callee.params) # Len(ctrl.args))
                => /\ ctrl' = CErr(ArityError(Len(ctrl.callee.params), Len(ctrl.args)))
                   /\ kont' = kont /\ out' = out
            /\ (ctrl.callee.k = "Class" /\ method(ctrl.callee, "init") = None
                /\ ctrl.args # <<>>)
                => ctrl' = CErr(ArityError(0, Len(ctrl.args))) /\ kont' = kont
            /\ (ctrl.callee.k = "Class" /\ method(ctrl.callee, "init") # None)
                => /\ ctrl'.m = "call" /\ ctrl'.args = ctrl.args
                   /\ ctrl'.callee.params = method(ctrl.callee, "init").params
                   /\ ctrl'.callee.body = method(ctrl.callee, "init").body]_vars
    /\ [](Done =>
            /\ IsCurated("FunArity") => results[2] = Err(ArityError(2, 1)) /\ out = <<>>
            /\ IsCurated("FunArityMore") => results[2] = Err(ArityError(2, 3)) /\ out = <<>>
            /\ IsCurated("ClassInitArity") => results[2] = Err(ArityError(0, 3))
            /\ IsCurated("ClassInitFew") => results[2] = Err(ArityError(1, 0)) /\ out = <<>>
            /\ IsCurated("ClassInitMany") => results[2] = Err(ArityError(1, 2)) /\ out = <<>>
            /\ IsCurated("ClassSuperInitFew") => results[3] = Err(ArityError(1, 0)) /\ out = <<>>)

\* C10 witness: a call with a wrong number of arguments has failed
C10_Witness ==
    /\ Done /\ IsCurated("FunArityMore")
    /\ results[2] = Err(ArityError(2, 3))

\* the value of input i of the session is an instance of the class named name
IsInstanceOf(i, name) ==
    /\ results[i].k = "Ok" /\ results[i].v.k = "Instance"
    /\ insts[results[i].v.uid].class.name = name

\* C11: calling a class yields a new instance of it whenever the initializer does
\* not fail: with no init, with an init that completes normally and with an init
\* that exits through a bare return; field writes made through this inside init are
\* visible on the instance.
C11_ConstructorYieldsInstance ==
    /\ [][/\ (Running /\ ctrl.m = "val" /\ Top.f = "Init") => ctrl' = CVal(Top.instance)
          /\ (Running /\ ctrl.m = "call" /\ ctrl.callee.k = "Class" /\ ctrl.args = <<>>
              /\ method(ctrl.callee, "init") = None)
                => /\ ctrl'.m = "val" /\ ctrl'.v.k = "Instance"
                   /\ ctrl'.v.uid \notin DOMAIN insts
                   /\ insts'[ctrl'.v.uid].class = ctrl.callee]_vars
    /\ [](Done =>
            /\ IsCurated("ClassNoInit") => IsInstanceOf(2, "Foo")
            /\ IsCurated("ClassInitReturn") =>
                  /\ IsInstanceOf(2, "Foo")
                  /\ insts[results[2].v.uid].fields = ("x" :> Number(1))
                  /\ results[3] = Ok(Number(1))
            /\ IsCurated("ClassInit") => results[2] = Ok(Str(<<"Just ", "Jimmy">>)))

\* C11 witness: a class whose init exits through a bare return has been called
C11_Witness == Done /\ IsCurated("ClassInitReturn") /\ IsInstanceOf(2, "Foo")

\* C12: applying an initializer closure returns the bound this on every exit path
\* of the body that does not fail: on normal completion and on a bare return.
C12_InitReturnsThis ==
    [][(/\ Running /\ Top.f = "Body" /\ Top.is_init
        /\ \/ ctrl.m = "ok" /\ Top.rest = <<>>
           \/ ctrl.m = "err" /\ ctrl.e.k = "Return")
            => ctrl' = CVal(lookup_dict(envs, Top.clos_env, "this"))]_vars

\* C13: super.m is dispatched statically: it yields method m of the superclass of
\* the class in whose body super is written, bound to the current this.  With
\* A.method, B < A overriding method, test() in B calling super.method() and C < B,
\* C().test() runs A.method.
C13_SuperIsStatic ==
    /\ (Done /\ IsCurated("ClassSuperTrap")) => results[4] = Ok(Str(<<"A method">>))
    /\ (Running /\ ctrl.m = "expr" /\ ctrl.e.k = "Super") => ctrl.e.kw \in DOMAIN locals

\* a Break, Continue, Return or other error is in flight
Raised(kinds) == Running /\ ctrl.m = "err" /\ ctrl.e.k \in kinds

\* C14: in a while loop a Break raised in the body, through any nesting of blocks
\* and ifs, ends the loop without running the rest of the body and without
\* evaluating the condition again; a Continue skips the rest of the body and the
\* condition is evaluated again; a Return or another error leaves the loop.
\* Execution then continues with the statement after the loop.
C14_LoopJumps ==
    /\ [][/\ (Raised({"Break"}) /\ Top.f = "WhileBody")
                => kont' = Pop /\ ctrl' = COk /\ out' = out
          /\ (Raised({"Continue"}) /\ Top.f = "WhileBody")
                => /\ ctrl' = CExpr(Top.cond) /\ out' = out
                   /\ kont' = Replace([f |-> "WhileCond", cond |-> Top.cond, body |-> Top.body])
          /\ (Raised({"Return", "Runtime", "Internal"}) /\ Top.f = "WhileBody")
                => kont' = Pop /\ ctrl' = ctrl /\ out' = out
          /\ (Raised({"Break", "Continue"}) /\ Top.f = "Block")
                => kont' = Pop /\ ctrl' = ctrl /\ out' = out]_vars
    /\ [](Done =>
            /\ IsCurated("WhileStmtJump") => results[3] = Ok(Number(3))
            /\ IsCurated("ForStmtJump") => results[3] = Ok(Number(6))
            /\ IsCurated("LoopTrace") => out = <<Number(2), Number(7)>>
            /\ IsCurated("LoopReturn") =>
                  /\ results[2] = Ok(Number(5))
                  /\ results[3] = Err(Undefined)
                  /\ out = <<>>)

\* C14 witness: a loop left by break after a continue, and the statement after it run
C14_Witness == Done /\ IsCurated("LoopTrace") /\ out = <<Number(2), Number(7)>>

\* C15: name resolution is static: every call of a function reads each free
\* variable from the declaration visible where the function was defined; a later
\* declaration of the name in the defining block, or one in the block of the call,
\* does not change what the function reads.
C15_StaticResolution ==
    /\ [][\A name \in DOMAIN locals :
            name \in DOMAIN locals' /\ locals'[name] = locals[name]]_vars
    /\ [](Done =>
            /\ IsCurated("FunEnvTrap") =>
                  /\ results[2] = Ok(Str(<<"global">>))
                  /\ results[3] = Ok(Str(<<"global">>))
            /\ IsCurated("FunEnvLocal") => out = <<Str(<<"outer">>), Str(<<"outer">>)>>)

\* C15 witness: the function was called before and after the later declaration
C15_Witness ==
    Done /\ IsCurated("FunEnvTrap") /\ results[3] = Ok(Str(<<"global">>))

PropertyUndefined == RuntimeError("property undefined for the given object")

\* C16: instance fields shadow methods and are per-instance: after a set, get of
\* that name on that instance yields the value, also for the name of a method; get
\* of a name without a field yields the class method bound to the instance; a set
\* changes no other instance and no method table, and every reference to the
\* instance, this included, observes it.
C16_FieldsShadowMethods ==
    /\ [][/\ (Running /\ ctrl.m = "val" /\ Top.f = "SetTo")
                => /\ insts'[Top.i.uid].fields[Top.name] = ctrl.v
                   /\ insts'[Top.i.uid].class = insts[Top.i.uid].class
                   /\ \A j \in DOMAIN insts : j # Top.i.uid => insts'[j] = insts[j]
                   /\ envs' = envs /\ ctrl' = ctrl
          /\ (Running /\ ctrl.m = "val" /\ Top.f = "Get" /\ ctrl.v.k = "Instance")
                => LET i == insts[ctrl.v.uid]
                       it == method(i.class, Top.name)
                   IN /\ Top.name \in DOMAIN i.fields => ctrl' = CVal(i.fields[Top.name])
                      /\ (Top.name \notin DOMAIN i.fields /\ it # None)
                            => /\ ctrl'.m = "val" /\ ctrl'.v.k = "NativeFn"
                               /\ ctrl'.v.body = it.body
                               /\ envs'[ctrl'.v.env].dict = ("this" :> ctrl.v)
                               /\ envs'[ctrl'.v.env].outer = it.env]_vars
    /\ [](Done =>
            /\ IsCurated("ClassGetSet") =>
                  /\ results[4] = Ok(Number(10086))
                  /\ results[5] = Ok(Str(<<"foobar">>))
                  /\ results[6] = Ok(Str(<<"foobar">>))
            /\ IsCurated("FieldShadow") =>
                  /\ results[2] = Ok(Number(5))
                  /\ results[3] = Ok(Number(1))
                  /\ results[5] = Ok(Number(7))
                  /\ results[7] = Ok(Number(8))
                  /\ results[8] = Err(PropertyUndefined))

\* C16 witness: a field named as a method has been set and read, and the method of
\* another instance has been called
C16_Witness ==
    Done /\ IsCurated("FieldShadow") /\ results[2] = Ok(Number(5)) /\ results[3] = Ok(Number(1))

NoProperties == RuntimeError("the object cannot have properties")

\* C17: a get or set whose receiver is not an instance (nil, boolean, number,
\* string, function, class) fails with the runtime error "cannot have properties";
\* for a set the right-hand side is not evaluated and no state changes; a get on an
\* instance of a name that is neither a field nor a method of its class or of a
\* superclass fails with "property undefined".
C17_PropertyErrors ==
    /\ [][/\ (Running /\ ctrl.m = "val" /\ Top.f \in {"Get", "SetObj"}
              /\ ctrl.v.k # "Instance")
                => /\ ctrl' = CErr(NoProperties) /\ kont' = Pop
                   /\ UNCHANGED <<envs, env, insts, out>>
          /\ (Running /\ ctrl.m = "val" /\ Top.f = "Get" /\ ctrl.v.k = "Instance"
              /\ Top.name \notin DOMAIN insts[ctrl.v.uid].fields
              /\ method(insts[ctrl.v.uid].class, Top.name) = None)
                => /\ ctrl' = CErr(PropertyUndefined) /\ kont' = Pop
                   /\ UNCHANGED <<envs, env, insts, out>>]_vars
    /\ [](Done /\ sid.fam = "receiver" =>
            IF sid.name # "instance"
            THEN results[2] = Err(NoProperties) /\ results[3] = Ok(Number(0))
            ELSE IF sid.inner = "get"
            THEN results[2] = Err(PropertyUndefined) /\ results[3] = Ok(Number(0))
            ELSE results[2] = Ok(Number(1)) /\ results[3] = Ok(Number(1)))

\* C17 witness: a set on a class value has failed and left the variable as it was
C17_Witness ==
    /\ Done /\ sid.fam = "receiver" /\ sid.name = "class" /\ sid.inner = "set"
    /\ results[2] = Err(NoProperties) /\ results[3] = Ok(Number(0))

\* the class values bound in an environment or held by an instance
ClassValues ==
    UNION {{envs[e].dict[x] : x \in {y \in DOMAIN envs[e].dict : envs[e].dict[y].k = "Class"}} :
            e \in DOMAIN envs}
    \cup {insts[i].class : i \in DOMAIN insts}

\* C18: bind does not change the closure it is applied to: the closures of a method
\* table and the environments they captured never get a this binding; a method
\* bound to two instances gives two closures that each read their own instance; a
\* bound method kept in a variable still sees the instance it was taken from.
C18_BindIsPure ==
    /\ [](\A class \in ClassValues : \A m \in DOMAIN class.methods :
            "this" \notin DOMAIN envs[class.methods[m].env].dict)
    /\ [][(Running /\ ((ctrl.m = "val" /\ Top.f = "Get")
                        \/ (ctrl.m = "call" /\ ctrl.callee.k = "Class")))
            => /\ \A e \in DOMAIN envs : envs'[e] = envs[e]
               /\ \A i \in DOMAIN insts : insts'[i] = insts[i]]_vars
    /\ [](Done =>
            /\ IsCurated("ClassMethodThisSave") => results[4] = Ok(Str(<<"Just ", "Jimmy">>))
            /\ IsCurated("BindTwo") =>
                  /\ results[2] = Ok(Str(<<"Just ", "A">>))
                  /\ results[3] = Ok(Str(<<"Just ", "B">>))
                  /\ results[4] = Ok(Str(<<"Just ", "A">>)))

\* C18 witness: one method bound to two instances, each bound method called
C18_Witness ==
    Done /\ IsCurated("BindTwo") /\ results[3] = Ok(Str(<<"Just ", "B">>))

\* only nil and false are falsy
Truthy(l) == l \notin {"nil", "false"}

\* C19: and / or short-circuit and yield an operand, not a boolean: a and b
\* evaluates b only when a is truthy and otherwise yields a; a or b evaluates b
\* only when a is falsy and otherwise yields a; a skipped operand is never
\* evaluated, so an undefined identifier there raises no error.  Only nil and
\* false are falsy; 0 and the empty string are truthy.
C19_ShortCircuit ==
    /\ (Done /\ sid.fam = "logical") =>
        LET lhs == Ok(Operand(sid.name).lit)
            rhs_runs == (sid.inner = "And") <=> Truthy(sid.name)
        IN IF rhs_runs
           THEN results[1] = Err(Undefined) /\ results[2] = Ok(Number(7))
           ELSE results[1] = lhs /\ results[2] = lhs
    /\ (Done /\ IsCurated("AndOr")) =>
        /\ results[1] = Ok(Str(<<"trick">>))
        /\ results[2] = Ok(Str(<<"hi">>))
        /\ results[3] = Ok(Nil)
        /\ results[4] = Ok(Str(<<"then_what">>))

\* C19 witness: 0 or nope has yielded 0 without evaluating nope
C19_Witness ==
    /\ Done /\ sid.fam = "logical" /\ sid.name = "zero" /\ sid.inner = "Or"
    /\ results[1] = Ok(Number(0))

\* the name has no recorded distance and no binding in the global environment
Unbound(name) == name \notin DOMAIN locals /\ name.lexeme \notin DOMAIN envs[globals].dict

\* C20: reading or assigning an identifier without a recorded distance and without
\* a global binding fails with "identifier is undefined"; a failed assignment
\* creates no binding; a successful assignment to an unresolved name rewrites the
\* binding in the global environment and yields the assigned value.
C20_UndefinedIdentifier ==
    /\ [][/\ (Running /\ ctrl.m = "expr" /\ ctrl.e.k \in {"Variable", "Assign"}
              /\ Unbound(ctrl.e.name))
                => ctrl' = CErr(Undefined) /\ envs' = envs /\ kont' = kont
          /\ (Running /\ ctrl.m = "val" /\ Top.f = "Assign" /\ Top.name \notin DOMAIN locals)
                => /\ envs' = [envs EXCEPT ![globals].dict = (Top.name.lexeme :> ctrl.v) @@ @]
                   /\ ctrl' = ctrl]_vars
    /\ [](Done /\ IsCurated("UndefinedGlobal") =>
            /\ results[1] = Err(Undefined)
            /\ results[2] = Err(Undefined)
            /\ results[3] = Err(Undefined)
            /\ results[5] = Ok(Number(2))
            /\ results[6] = Ok(Number(2))
            /\ results[8] = Ok(Number(3))
            /\ results[9] = Err(Undefined)
            /\ "nope" \notin DOMAIN envs[globals].dict)

\* C20 witness: an assignment to an undefined name has failed and the name is
\* undefined afterwards, and an assignment to a global inside a function has worked
C20_Witness ==
    /\ Done /\ IsCurated("UndefinedGlobal")
    /\ results[2] = Err(Undefined) /\ results[3] = Err(Undefined)
    /\ results[8] = Ok(Number(3))

\* the classes on the chain of class: itself, then its superclasses in order
RECURSIVE Chain(_)
Chain(class) ==
    IF class.superclass = None THEN <<class>> ELSE <<class>> \o Chain(class.superclass)

\* the names some method table of a class value defines, and one that none defines
MethodNames == UNION {DOMAIN c.methods : c \in ClassValues} \cup {"nope"}

\* C21: method lookup on a class returns the definition of the nearest class on the
\* chain of superclass links that defines the name, and none when no class on the
\* chain does; a subclass that declares no init is constructed through the init it
\* inherits.
C21_MethodLookup ==
    /\ \A class \in ClassValues : \A name \in MethodNames :
          LET chain == Chain(class)
              at == {i \in 1..Len(chain) : name \in DOMAIN chain[i].methods}
          IN method(class, name) =
                IF at = {} THEN None
                ELSE chain[CHOOSE i \in at : \A j \in at : i <= j].methods[name]
    /\ (Done /\ IsCurated("ClassSuperMethod")) =>
          /\ results[4] = Ok(Str(<<"B method">>))
          /\ results[5] = Ok(Str(<<"A base">>))
          /\ results[6] = Err(PropertyUndefined)
          /\ results[7] = Ok(Str(<<"A method">>))
    /\ (Done /\ IsCurated("ClassSuperInit")) =>
          /\ out = <<Str(<<"in init">>)>>
          /\ results[3] = Ok(Str(<<"Just ", "Jog">>))
    /\ (Done /\ IsCurated("ClassSuperInitFew")) => results[3] = Err(ArityError(1, 0))

\* C21 witness: a method defined two classes up the chain has been called on an
\* instance of the subclass that constructs through no init at all
C21_Witness ==
    /\ Done /\ IsCurated("ClassSuperMethod")
    /\ results[5] = Ok(Str(<<"A base">>))
    /\ \E class \in ClassValues : Len(Chain(class)) = 3

\* a method is being executed: some activation's closure environment binds this
InMethod ==
    \E i \in 1..Len(kont) :
        kont[i].f = "Body" /\ "this" \in DOMAIN envs[kont[i].clos_env].dict

\* C22: the scopes the resolver opens around a method body match the environments
\* between a method call's parameter environment and the environment of the class
\* declaration, with or without a superclass: a variable of an enclosing local scope
\* read in a method is found at its recorded distance, and the method returns it.
C22_ClassScopesMatchEnvs ==
    /\ (Running /\ InMethod /\ ctrl.m = "expr" /\ ctrl.e.k = "Variable"
        /\ ctrl.e.name \in DOMAIN locals) => BoundAt(ctrl.e.name)
    /\ (Done /\ IsCurated("ClassLocal")) => out = <<Number(1)>>
    /\ (Done /\ IsCurated("SubclassLocal")) => out = <<Number(1)>>

\* the statements of a list of statements, with those nested in them at any depth
RECURSIVE StmtsWithin(_)
RECURSIVE StmtsOfExpr(_)
RECURSIVE StmtsOfExprs(_)
StmtsWithin(stmts) ==
    IF Len(stmts) = 0 THEN <<>>
    ELSE LET it == Head(stmts)
             nested ==
                CASE it.k = "Block" -> StmtsWithin(it.stmts)
                  [] it.k = "Class" -> StmtsWithin(it.methods)
                  [] it.k \in {"Expression", "Print"} -> StmtsOfExpr(it.expr)
                  [] it.k = "Fun" -> StmtsWithin(it.body)
                  [] it.k = "If" ->
                        StmtsOfExpr(it.cond) \o StmtsWithin(<<it.then_stmt>>)
                        \o (IF it.else_stmt = None THEN <<>>
                            ELSE StmtsWithin(<<it.else_stmt>>))
                  [] it.k = "Return" -> IF it.val = None THEN <<>> ELSE StmtsOfExpr(it.val)
                  [] it.k = "Var" -> IF it.init = None THEN <<>> ELSE StmtsOfExpr(it.init)
                  [] it.k = "While" -> StmtsOfExpr(it.cond) \o StmtsWithin(<<it.body>>)
                  [] OTHER -> <<>>
         IN <<it>> \o nested \o StmtsWithin(Tail(stmts))

StmtsOfExpr(expr) ==
    CASE expr.k = "Assign" -> StmtsOfExpr(expr.val)
      [] expr.k \in {"Binary", "Logical"} -> StmtsOfExpr(expr.lhs) \o StmtsOfExpr(expr.rhs)
      [] expr.k = "Call" -> StmtsOfExpr(expr.callee) \o StmtsOfExprs(expr.args)
      [] expr.k = "Get" -> StmtsOfExpr(expr.obj)
      [] expr.k = "Grouping" -> StmtsOfExpr(expr.inner)
      [] expr.k = "Lambda" -> StmtsWithin(expr.body)
      [] expr.k = "Set" -> StmtsOfExpr(expr.obj) \o StmtsOfExpr(expr.to)
      [] expr.k = "Unary" -> StmtsOfExpr(expr.rhs)
      [] OTHER -> <<>>

StmtsOfExprs(exprs) ==
    IF Len(exprs) = 0 THEN <<>>
    ELSE StmtsOfExpr(Head(exprs)) \o StmtsOfExprs(Tail(exprs))

\* the statements of the input that is about to be resolved
PendingStmts ==
    IF phase = "idle" /\ idx <= Len(Inputs(sid))
    THEN LET input == Inputs(sid)[idx]
         IN IF input.kind = "stmts" THEN StmtsWithin(input.stmts)
            ELSE StmtsOfExpr(input.expr)
    ELSE <<>>

\* the resolvers a statement may be met by: each function kind, in and out of a
\* loop, in and out of a class, under zero to two open scopes
MaxScopes == 2

ResolverStates ==
    {[ResolverNew(locals) EXCEPT !.jump_ctx = JumpContext(fun_ty, in_loop),
                                 !.class_ctx = class_ctx,
                                 !.scopes = [i \in 1..n |-> <<>>]] :
        fun_ty \in {"None", "Function", "Initializer", "Method"}, in_loop \in BOOLEAN,
        class_ctx \in {"None", "Class"}, n \in 0..MaxScopes}

\* the part of the resolver a statement has to leave as it found it
Frame(r) == <<r.jump_ctx.fun_ty, r.jump_ctx.in_loop, r.class_ctx, Len(r.scopes)>>

\* C23: after the resolver has successfully resolved a statement, at any nesting and
\* from any context, its function kind, its in_loop flag, its class kind and the
\* depth of its scope stack are what they were before the statement.
C23_ResolverFrame ==
    \A i \in 1..Len(PendingStmts) : \A r \in ResolverStates :
        LET after == resolve_stmt(r, PendingStmts[i])
        IN after.err = NoErr => Frame(after) = Frame(r)

\* C23 witness: a loop holding a function declaration and a class declaration with
\* a method are about to be resolved, and resolve from inside an initializer in a loop
C23_Witness ==
    \E i, j \in 1..Len(PendingStmts) :
        /\ PendingStmts[i].k = "While" /\ PendingStmts[j].k = "Class"
        /\ PendingStmts[j].methods # <<>>
        /\ \E r \in ResolverStates :
              /\ r.jump_ctx = JumpContext("Initializer", TRUE) /\ Len(r.scopes) = MaxScopes
              /\ resolve_stmt(r, PendingStmts[i]).err = NoErr
              /\ resolve_stmt(r, PendingStmts[j]).err = NoErr
              /\ \E k \in 1..Len(PendingStmts) :
                    PendingStmts[k].k = "Fun" /\ resolve_stmt(r, PendingStmts[k]).err = NoErr

NotCallable == RuntimeError("the object is not callable")

\* C24: in a call the callee is evaluated first, then the arguments from left to
\* right, all of them before the callee is checked for callability or arity: a call
\* that fails on the callee or on the arity has had the effects of every argument;
\* when an argument fails no later argument is evaluated and no body is entered.
C24_CallOrder ==
    /\ [][/\ (Running /\ ctrl.m = "expr" /\ ctrl.e.k = "Call")
                => ctrl' = CExpr(ctrl.e.callee)
          /\ (Running /\ ctrl.m = "val" /\ Top.f = "Call" /\ Top.rest # <<>>)
                => ctrl' = CExpr(Head(Top.rest)) /\ kont'[Len(kont)].rest = Tail(Top.rest)
          /\ (Running /\ ctrl.m = "err" /\ Top.f = "Call")
                => ctrl' = ctrl /\ kont' = Pop /\ envs' = envs /\ env' = env /\ out' = out
          /\ (Running /\ ctrl'.m = "call")
                => \/ ctrl.m = "val" /\ Top.f = "Call" /\ Top.rest = <<>>
                   \/ ctrl.m = "call" /\ ctrl.callee.k = "Class"
                      /\ ctrl'.args = ctrl.args]_vars
    /\ [](Done /\ IsCurated("CallOrder") =>
            /\ results[2] = Err(ArityError(1, 2)) /\ results[3] = Ok(Number(4))
            /\ results[4] = Err(NotCallable) /\ results[5] = Ok(Number(44))
            /\ results[6] = Err(Undefined) /\ results[7] = Ok(Number(1))
            /\ results[8] = Err(ArityError(0, 1)) /\ results[9] = Ok(Number(7))
            /\ out = <<>>)

\* C24 witness: a call with two assigning arguments has failed on the arity, and a
\* call whose second argument fails has returned
C24_Witness ==
    /\ Done /\ IsCurated("CallOrder")
    /\ results[2] = Err(ArityError(1, 2)) /\ results[3] = Ok(Number(4))
    /\ results[6] = Err(Undefined)

RECURSIVE EnvChain(_)
EnvChain(e) == IF e = 0 THEN <<>> ELSE <<e>> \o EnvChain(envs[e].outer)

\* C26: outer_nth(env, n) is the environment exactly n outer links from env, so env
\* itself for n = 0 and its direct outer environment for n = 1, and none exactly
\* when the chain from env has fewer than n outer links.
C26_OuterNth ==
    \A e \in DOMAIN envs : \A n \in 0..Len(envs) :
        Env_outer_nth(envs, e, n) =
            IF n + 1 <= Len(EnvChain(e)) THEN EnvChain(e)[n + 1] ELSE 0

\* C27: in a for loop a continue executed in the body still runs the increment
\* clause before the condition is evaluated again, so a loop over i from 0 below n
\* whose body ends in continue finishes after n iterations.
C27_ForContinue ==
    Done =>
        /\ IsCurated("ForPlain") => results[2] = Ok(None) /\ results[3] = Ok(Number(2))
        /\ IsCurated("ForContinue0") => results[2] = Ok(None) /\ results[3] = Ok(Number(0))
        /\ IsCurated("ForContinue1") => results[2] = Ok(None) /\ results[3] = Ok(Number(1))
        /\ IsCurated("ForContinue2") => results[2] = Ok(None) /\ results[3] = Ok(Number(2))

\* the sessions whose second input returns a runtime error, from the global scope
Recoveries == {"ArityRecover", "BodyFailRecover", "BlockFailRecover"}

\* C28: when a top-level input returns a runtime error (an arity mismatch found by
\* a closure application, a failure in a function body, a failure in a nested
\* block) the current environment is again the one from before the input, so the
\* next input runs in the global scope: a variable it declares is a global.
C28_EnvAfterError ==
    /\ (phase = "idle" /\ sid.fam = "curated" /\ sid.name \in Recoveries) => env = globals
    /\ (Done /\ sid.fam = "curated" /\ sid.name \in Recoveries) =>
          /\ results[2].k = "Err"
          /\ results[4] = Ok(Number(1))

\* the distances the resolver records for the input being run, taken on its own
OwnLocals ==
    LET input == Inputs(sid)[idx]
    IN IF input.kind = "stmts" THEN resolve(<<>>, input.stmts).locals
       ELSE resolve_expr(ResolverNew(<<>>), input.expr).locals

\* C29: over several inputs on the same interpreter, a distance recorded for a token
\* of an earlier input is never applied to an occurrence in a later input with the
\* same lexeme and position: a name the resolver treats as global in the input being
\* run, read outside of any function body, is looked up in the global environment.
C29_NoStaleDistance ==
    /\ (/\ Running /\ ctrl.m = "expr" /\ ctrl.e.k = "Variable"
        /\ \A i \in 1..Len(kont) : kont[i].f # "Body"
        /\ ctrl.e.name \notin DOMAIN OwnLocals)
          => lookup(ctrl.e.name) = lookup_dict(envs, globals, ctrl.e.name.lexeme)
    /\ (Done /\ IsCurated("TokenCollision")) =>
          /\ out = <<Str(<<"local">>)>>
          /\ results[3] = Ok(Str(<<"global">>))

\* C30: == is reflexive and by identity on reference values: for a variable bound
\* to a function, a class or an instance x == x is true and x != x is false, two
\* distinct functions, classes or instances are unequal, and values of different
\* variants are never equal.
C30_Equality ==
    (Done /\ IsCurated("Equality")) =>
        /\ results[2] = Ok(Bool(TRUE)) /\ results[3] = Ok(Bool(FALSE))
        /\ results[4] = Ok(Bool(FALSE))
        /\ results[5] = Ok(Bool(TRUE)) /\ results[6] = Ok(Bool(FALSE))
        /\ results[7] = Ok(Bool(FALSE))
        /\ results[8] = Ok(Bool(TRUE)) /\ results[9] = Ok(Bool(FALSE))
        /\ results[10] = Ok(Bool(FALSE))
        /\ \A n \in 11..14 : results[n] = Ok(Bool(FALSE))

====
